---- MODULE Spec2Model ----
(***************************************************************************)
(* Model of the McCap bot core: the alert watch loop over the shared price *)
(* cache (alerts.py, cache.py, bot.py /mc and /mc_remove), the payment     *)
(* watch loop (payments.py, bot.py /pay) and the firing predicate          *)
(* (helpers.py meets).                                                     *)
(*                                                                         *)
(* Scheduling: one asyncio event loop.  A task runs without interruption   *)
(* from one real suspension to the next.  The real suspensions are the     *)
(* HTTP/RPC calls, the discord calls and asyncio.sleep.  Acquiring an      *)
(* uncontended asyncio.Lock and the save_* coroutines (synchronous file    *)
(* writes behind such a lock) do not suspend, so each action below is the  *)
(* code between two real suspensions.                                      *)
(***************************************************************************)
EXTENDS Integers, Sequences, FiniteSets, TLC

\* ------------------------------------------------------------------------
\* Values and bounds
\* ------------------------------------------------------------------------

\* Python None where an Optional[float] market cap is expected.
Null == -1

\* Token identifiers (contract addresses) users ask about.
Tokens == {"A", "B"}

\* Market-cap values the resolver can produce (strictly positive): one
\* below and one above the target.  The boundary current = target is
\* explored on meets itself (SpecMeets).
Values == {1, 3}

\* Targets users give to /mc.
Targets == {2}

\* Guilds (servers) the commands are issued from.
Guilds == {1}

\* Total number of rules /mc creates in a run.
MaxRules == 2

\* Capacity of the alert history; stands for the 1000 of alerts.py:68 and
\* storage.py:68, scaled so that eviction is reached.
HistoryCap == 2

\* Largest reading of time.time() in a run.
MaxClock == 2

RuleIds == 1..MaxRules

\* ------------------------------------------------------------------------
\* State
\* ------------------------------------------------------------------------
VARIABLES
    reminders,      \* storage.reminders: the active rules, in creation order
    next_id,        \* identity of the next Reminder object /mc constructs
    token_cache,    \* cache.token_cache: token -> snapshot
    alert_events,   \* storage.alert_events: fired events, newest first
    clock,          \* the latest reading of time.time()
    w_pc,           \* alerts.watcher: where the task is suspended
    w_cas,          \* alerts.watcher: unique_cas of the running cycle
    w_results,      \* alerts.watcher: per token, outcome of its fetch in gather
    w_snap,         \* alerts.watcher: snap of the running cycle (token -> mc)
    w_todo,         \* alerts.watcher: rest of reminders[:], head = rule in hand
    matched,        \* history: per rule, times its predicate matched (fires)
    recorded,       \* history: per rule, AlertEvents inserted for it
    cancelled,      \* history: rules removed by /mc_remove
    invoices,       \* storage.invoices, in creation order
    recent,         \* the ledger: the wallet's recent signatures, newest first
    p_pc,           \* payments_watcher: where the task is suspended
    p_now,          \* payments_watcher: now of the running cycle
    p_changed,      \* payments_watcher: changed of the running cycle
    p_todo,         \* payments_watcher: rest of list(invoices), as indices
    p_reply,        \* payments_watcher: kind of the last getSignatures reply
    p_flips,        \* history: status changes made by the running cycle
    p_saves,        \* history: save_invoices calls of the latest cycle
    p_undelivered,  \* history: a notification of the running cycle failed
    m_dir,          \* meets: argument dir_
    m_current,      \* meets: argument current
    m_target,       \* meets: argument target
    m_result,       \* meets: "unset", or the value returned
    t_tx,           \* _find_matching_tx on a token invoice: the transaction
    t_amount,       \* _find_matching_tx on a token invoice: inv.amount_base
    t_result,       \* _find_matching_tx on a token invoice: "unset", or matched
    c_valid,        \* choose_consensus_pair: the pairs' values, in input order
    c_perm,         \* choose_consensus_pair: the same pairs in another order
    c_out,          \* choose_consensus_pair: "unset", or consensus of c_valid
    c_out_perm,     \* choose_consensus_pair: "unset", or consensus of c_perm
    l_pc,           \* cache lock users: per task, position in its code
    l_lock,         \* cache.TOKEN_CACHE_LOCK: "free", or the task holding it
    l_run,          \* the task the event loop is running, or "none"
    d_ca,           \* dex.py functions: argument ca / address
    d_ext,          \* fetch_dex_token: what the external call does
    d_pairs,        \* the pairs of the payload, or the pairs argument
    d_pc,           \* dex.py functions: "idle", or the step reached
    d_data,         \* fetch_dex_token: the value returned
    d_out,          \* the result of the function applied to the pairs
    d_snap          \* the cache entry the caller writes for the token

alertVars == <<reminders, next_id, token_cache, alert_events,
               w_pc, w_cas, w_results, w_snap, w_todo,
               matched, recorded, cancelled>>
payVars   == <<invoices, recent, p_pc, p_now, p_changed, p_todo, p_reply,
               p_flips, p_saves, p_undelivered>>
meetsVars == <<m_dir, m_current, m_target, m_result>>
tokVars   == <<t_tx, t_amount, t_result>>
consVars  == <<c_valid, c_perm, c_out, c_out_perm>>
lockVars  == <<l_pc, l_lock, l_run>>
dexVars   == <<d_ca, d_ext, d_pairs, d_pc, d_data, d_out, d_snap>>
auxVars   == <<tokVars, consVars, lockVars, dexVars>>

vars == <<alertVars, payVars, meetsVars, auxVars, clock>>

\* ------------------------------------------------------------------------
\* helpers.py
\* ------------------------------------------------------------------------

Directions == {"above", "below"}

\* meets with None read as 0, as in (current or 0).
meets_none_as_zero(dir_, current, target) ==
    LET c == IF current = Null THEN 0 ELSE current
    IN  IF dir_ = "above" THEN c >= target ELSE c <= target

\* meets with strict comparisons.
meets_strict(dir_, current, target) ==
    IF current = Null THEN FALSE
    ELSE IF dir_ = "above" THEN current > target ELSE current < target

meets(dir_, current, target) ==
    IF current = Null THEN FALSE
    ELSE IF dir_ = "above" THEN current >= target ELSE current <= target

\* ------------------------------------------------------------------------
\* models.py records
\* ------------------------------------------------------------------------

\* A Reminder; id is the object's identity, the other fields are its value.
Reminder(id, ca, target_mc, direction, guild_id) ==
    [id |-> id, ca |-> ca, target_mc |-> target_mc, direction |-> direction,
     guild_id |-> guild_id]

\* Dataclass equality of two Reminders: field by field, identity apart.
ReminderEq(a, b) ==
    /\ a.ca = b.ca
    /\ a.target_mc = b.target_mc
    /\ a.direction = b.direction
    /\ a.guild_id = b.guild_id

TokenSnapshot(mc, source) == [mc |-> mc, source |-> source]

\* token_cache.get(ca) of a token never cached: no snapshot, so no value.
NoSnapshot == [mc |-> Null, source |-> "absent"]

\* An event that records every firing as a rise above the target.
AlertEventAlwaysAbove(ts, rem, curr_mc) ==
    [ts |-> ts, ca |-> rem.ca, direction |-> "above",
     target_mc |-> rem.target_mc, current_mc |-> curr_mc,
     guild_id |-> rem.guild_id]

\* alerts.py 78-84: the event of a firing, built from the rule and the
\* value the predicate was evaluated on.
AlertEvent(ts, rem, curr_mc) ==
    [ts |-> ts, ca |-> rem.ca, direction |-> rem.direction,
     target_mc |-> rem.target_mc, current_mc |-> curr_mc,
     guild_id |-> rem.guild_id]

\* ------------------------------------------------------------------------
\* list operations
\* ------------------------------------------------------------------------

\* Index of the first element of s equal (==) to r, 0 when there is none.
RECURSIVE IndexOf(_, _, _)
IndexOf(s, r, i) ==
    IF i > Len(s) THEN 0
    ELSE IF ReminderEq(s[i], r) THEN i
    ELSE IndexOf(s, r, i + 1)

DropAt(s, i) == SubSeq(s, 1, i - 1) \o SubSeq(s, i + 1, Len(s))

\* A remove that leaves the list as it is.
ListRemoveNothing(s, r) == s

\* list.remove(r): drops the first element equal to r.
ListRemove(s, r) == DropAt(s, IndexOf(s, r, 1))

Take(s, n) == SubSeq(s, 1, IF Len(s) < n THEN Len(s) ELSE n)

\* sorted(events, key=ts, reverse=True): stable, newest first.
RECURSIVE InsertByTsDesc(_, _)
InsertByTsDesc(sorted, e) ==
    IF sorted = <<>> THEN <<e>>
    ELSE IF Head(sorted).ts >= e.ts
         THEN <<Head(sorted)>> \o InsertByTsDesc(Tail(sorted), e)
         ELSE <<e>> \o sorted

RECURSIVE SortByTsDesc(_)
SortByTsDesc(s) ==
    IF s = <<>> THEN <<>>
    ELSE InsertByTsDesc(SortByTsDesc(SubSeq(s, 1, Len(s) - 1)), s[Len(s)])

\* ------------------------------------------------------------------------
\* storage.py
\* ------------------------------------------------------------------------

\* load_alerts: the stored events, newest first, cut to the capacity.
LoadAlerts(file) == Take(SortByTsDesc(file), HistoryCap)

StoredEvent(ts, ca) ==
    [ts |-> ts, ca |-> ca, direction |-> "above", target_mc |-> 1,
     current_mc |-> 1, guild_id |-> 1]

\* Contents of alerts.json at start-up: none, or one event more than the
\* capacity, out of order (timestamps 0, 1, 0, ...).
StoredAlertFiles ==
    { <<>>,
      [i \in 1..(HistoryCap + 1) |->
          StoredEvent((i + 1) % 2, IF i % 2 = 1 THEN "A" ELSE "B")] }

\* An insert that never drops an event.
InsertEventNoEvict(events, e) == <<e>> \o events

\* alerts.py 67-68: insert at the front, drop the last one past capacity.
InsertEvent(events, e) ==
    LET ins == <<e>> \o events
    IN  IF Len(ins) > HistoryCap THEN SubSeq(ins, 1, Len(ins) - 1) ELSE ins

\* ------------------------------------------------------------------------
\* Initial state: setup_hook has loaded the stores, the tasks wait.
\* ------------------------------------------------------------------------

NoSnap == [ca \in Tokens |-> Null]

\* A fetch of gather that has not returned, or was not started.
Pending == -3

\* No gather is under way.
NoResults == [ca \in Tokens |-> Pending]

InitAlerts ==
    /\ reminders = <<>>
    /\ next_id = 1
    /\ token_cache = [ca \in Tokens |-> NoSnapshot]
    /\ \E file \in StoredAlertFiles : alert_events = LoadAlerts(file)
    /\ w_pc = "sleep"
    /\ w_cas = {}
    /\ w_results = NoResults
    /\ w_snap = NoSnap
    /\ w_todo = <<>>
    /\ matched = [i \in RuleIds |-> 0]
    /\ recorded = [i \in RuleIds |-> 0]
    /\ cancelled = {}

\* The alert subsystem at rest, while another subsystem is explored.
IdleAlerts ==
    /\ reminders = <<>>
    /\ next_id = 1
    /\ token_cache = [ca \in Tokens |-> NoSnapshot]
    /\ alert_events = <<>>
    /\ w_pc = "sleep"
    /\ w_cas = {}
    /\ w_results = NoResults
    /\ w_snap = NoSnap
    /\ w_todo = <<>>
    /\ matched = [i \in RuleIds |-> 0]
    /\ recorded = [i \in RuleIds |-> 0]
    /\ cancelled = {}

\* No call of meets on its own has been made.
IdleMeets ==
    /\ m_dir = "above"
    /\ m_current = Null
    /\ m_target = 1
    /\ m_result = "unset"

\* No call of the token-invoice matching on its own has been made.
IdleTok ==
    /\ t_tx = <<>>
    /\ t_amount = 0
    /\ t_result = "unset"

\* No call of the consensus engine on its own has been made.
IdleCons ==
    /\ c_valid = <<>>
    /\ c_perm = <<>>
    /\ c_out = Null
    /\ c_out_perm = Null

\* The tasks that take the cache lock.
LockTasks == {"watcher", "mc", "mc_list", "mc_recent"}

\* No task is in its code, the lock is free.
IdleLock ==
    /\ l_pc = [t \in LockTasks |-> 0]
    /\ l_lock = "free"
    /\ l_run = "none"

\* choose_consensus_pair's result without a best pair and without candidates.
NoChoice == [best |-> 0, consensus |-> 0, cands |-> <<>>]

\* No call of a dex.py function on its own has been made.
IdleDex ==
    /\ d_ca = ""
    /\ d_ext = ""
    /\ d_pairs = <<>>
    /\ d_pc = "idle"
    /\ d_data = [raised |-> FALSE, none |-> TRUE, pairs |-> <<>>]
    /\ d_out = NoChoice
    /\ d_snap = NoSnapshot

IdleAux == IdleTok /\ IdleCons /\ IdleLock /\ IdleDex

\* time.time(): a reading is never before the latest one (clock).
Readings == clock..MaxClock

\* ------------------------------------------------------------------------
\* bot.py commands
\* ------------------------------------------------------------------------

\* bot.py 128-131: the direction /mc gives the new rule.
McDirection(target_val, mc_now_val) ==
    IF mc_now_val = Null THEN "above"
    ELSE IF target_val < mc_now_val THEN "below" ELSE "above"

\* /mc after its fetch returned pairs with a best pair of value v: the cache
\* entry is replaced (update_cache), the rule appended and saved.  A fetch
\* without pairs or without a best pair returns before touching any state.
Mc ==
    /\ next_id <= MaxRules
    /\ \E ca \in Tokens, target \in Targets, g \in Guilds, v \in Values :
         /\ token_cache' = [token_cache EXCEPT ![ca] = TokenSnapshot(v, "fdv")]
         /\ reminders' = Append(reminders,
                Reminder(next_id, ca, target, McDirection(target, v), g))
    /\ next_id' = next_id + 1
    /\ UNCHANGED <<alert_events, clock, w_pc, w_cas, w_results, w_snap, w_todo,
                   matched, recorded, cancelled, payVars, meetsVars, auxVars>>

\* /mc_remove: the index counts the rules of the caller's guild; the caller
\* must be the creator or hold Manage Server (allowed).
McRemove ==
    \E g \in Guilds, index \in 1..MaxRules, allowed \in BOOLEAN :
        LET sr  == SelectSeq(reminders, LAMBDA r : r.guild_id = g)
        IN  /\ index <= Len(sr)
            /\ allowed
            /\ LET rem == sr[index]
                   at  == IndexOf(reminders, rem, 1)
               IN  /\ reminders' = ListRemove(reminders, rem)
                   /\ cancelled' = cancelled \cup {reminders[at].id}
            /\ UNCHANGED <<next_id, token_cache, alert_events, clock,
                           w_pc, w_cas, w_results, w_snap, w_todo,
                           matched, recorded, payVars, meetsVars, auxVars>>

\* ------------------------------------------------------------------------
\* alerts.py watcher
\* ------------------------------------------------------------------------

\* Outcome of fetch + consensus for one token whose payload makes
\* choose_consensus_pair raise (dex.py 44-48, 61-65: a pair that is no
\* record, a liquidity or volume field that float() rejects).
Malformed == -2

\* Outcome of fetch + consensus for one token: a positive value, Null
\* (failed fetch, no pairs, no best pair), or Malformed.
Outcomes == Values \cup {Null, Malformed}

\* alerts.py 15: list({...}) enumerates the tokens in an order of its own.
Orders(S) ==
    {o \in [1..Cardinality(S) -> S] :
        \A i, j \in 1..Cardinality(S) : o[i] = o[j] => i = j}

\* alerts.py 21-40: the snapshot written for an outcome.
RefreshSnapshot(outcome) ==
    IF outcome = Null THEN TokenSnapshot(Null, "none")
    ELSE TokenSnapshot(outcome, "fdv")

\* A refresh loop that a failed fetch stops.
RECURSIVE RefreshLoopStopOnNull(_, _, _)
RefreshLoopStopOnNull(order, results, cache) ==
    IF order = <<>> THEN [cache |-> cache, raised |-> FALSE]
    ELSE IF results[Head(order)] \in {Malformed, Null}
         THEN [cache |-> cache, raised |-> TRUE]
         ELSE RefreshLoopStopOnNull(Tail(order), results,
                  [cache EXCEPT ![Head(order)] =
                       RefreshSnapshot(results[Head(order)])])

\* alerts.py 20-40: the refresh loop over zip(unique_cas, results); the
\* first malformed payload raises out of it, the tokens after it are not
\* reached.
RECURSIVE RefreshLoop(_, _, _)
RefreshLoop(order, results, cache) ==
    IF order = <<>> THEN [cache |-> cache, raised |-> FALSE]
    ELSE IF results[Head(order)] = Malformed
         THEN [cache |-> cache, raised |-> TRUE]
         ELSE RefreshLoop(Tail(order), results,
                  [cache EXCEPT ![Head(order)] =
                       RefreshSnapshot(results[Head(order)])])

\* alerts.py 45-47: the for loop runs on without suspending over the rules
\* whose predicate does not match.
RECURSIVE SkipUnmet(_, _)
SkipUnmet(todo, snap) ==
    IF todo = <<>> THEN <<>>
    ELSE IF meets(Head(todo).direction, snap[Head(todo).ca], Head(todo).target_mc)
         THEN todo
         ELSE SkipUnmet(Tail(todo), snap)

\* The loop goes on over todo: it ends (sleep), or enters the try block of
\* the first matching rule and suspends in fetch_channel.
Continue(todo, snap) ==
    LET rest == SkipUnmet(todo, snap)
    IN  IF rest = <<>>
        THEN /\ w_pc' = "sleep"
             /\ w_todo' = <<>>
             /\ w_snap' = NoSnap
             /\ w_cas' = {}
             /\ matched' = matched
        ELSE /\ w_pc' = "deliver"
             /\ w_todo' = rest
             /\ w_snap' = snap
             /\ w_cas' = {}
             /\ matched' = [matched EXCEPT ![Head(rest).id] = @ + 1]

\* A cycle that stops the loop for good instead of logging the error.
AbortDead ==
    /\ w_pc' = "dead"
    /\ w_todo' = <<>>
    /\ w_snap' = NoSnap
    /\ w_cas' = {}
    /\ matched' = matched

\* alerts.py 74-76: the cycle is abandoned by the outer except: the error
\* is logged, then the task sleeps ("failed": asleep after an error).
Abort ==
    /\ w_pc' = "failed"
    /\ w_todo' = <<>>
    /\ w_snap' = NoSnap
    /\ w_cas' = {}
    /\ matched' = matched

\* A cycle that fetches every token of the model.
UniqueCasAll(rems) == Tokens

\* alerts.py 15: unique_cas, the tokens of the rules active now.
UniqueCas(rems) == {rems[i].ca : i \in 1..Len(rems)}

\* alerts.py 15-17, 42-47, 76: a cycle starts; with rules present it
\* suspends in gather.  Without rules it has nothing to fetch and nothing
\* to evaluate, and sleeps again.
WStart ==
    /\ w_pc \in {"sleep", "failed"}
    /\ IF reminders = <<>>
       THEN /\ w_pc' = "sleep"
            /\ w_cas' = {}
       ELSE /\ w_pc' = "fetch"
            /\ w_cas' = UniqueCas(reminders)
    /\ UNCHANGED <<reminders, next_id, token_cache, alert_events, clock,
                   w_results, w_snap, w_todo, matched, recorded, cancelled,
                   payVars, meetsVars, auxVars>>

\* alerts.py 17, dex.py 8-17: one fetch of the gather returns; the watcher
\* stays suspended until all have.
WFetched ==
    /\ w_pc = "fetch"
    /\ \E ca \in w_cas, outcome \in Outcomes :
         /\ w_results[ca] = Pending
         /\ w_results' = [w_results EXCEPT ![ca] = outcome]
    /\ UNCHANGED <<reminders, next_id, token_cache, alert_events, clock,
                   w_pc, w_cas, w_snap, w_todo, matched, recorded, cancelled,
                   payVars, meetsVars, auxVars>>

\* A snap taken from the cache as it was before the refresh.
TakeSnapStale(cache) ==
    [ca \in Tokens |->
        IF \E i \in 1..Len(reminders) : reminders[i].ca = ca
        THEN token_cache[ca].mc ELSE Null]

\* alerts.py 42-43: snap, the cached values of the current rules' tokens.
TakeSnap(cache) ==
    [ca \in Tokens |->
        IF \E i \in 1..Len(reminders) : reminders[i].ca = ca
        THEN cache[ca].mc ELSE Null]

\* alerts.py 18-47: every fetch has returned and gather hands the results
\* over; the fetched tokens' entries are
\* replaced in the order of unique_cas, the snapshot of the current rules'
\* tokens taken, the copy of the rules made and the loop started.  A
\* malformed payload raises out of the refresh and ends the cycle.
WRefresh ==
    /\ w_pc = "fetch"
    /\ \A ca \in w_cas : w_results[ca] # Pending
    /\ \E order \in Orders(w_cas) :
         LET out == RefreshLoop(order, w_results, token_cache)
         IN  /\ w_results' = NoResults
             /\ token_cache' = out.cache
             /\ IF out.raised THEN Abort
                ELSE Continue(reminders, TakeSnap(out.cache))
    /\ UNCHANGED <<reminders, next_id, alert_events, clock, recorded, cancelled,
                   payVars, meetsVars, auxVars>>

\* alerts.py 48-73 for the rule in hand: the delivery calls return or raise
\* (delivered); on success the event is inserted and saved; in both cases
\* the rule is then removed (ValueError if no equal rule is left) and the
\* rules saved (saved = FALSE: save_reminders raises).  A save_alerts that
\* raises is caught with the delivery errors and changes nothing here.
WDeliver ==
    /\ w_pc = "deliver"
    /\ \E delivered \in BOOLEAN, saved \in BOOLEAN, ts \in Readings :
         LET rem == Head(w_todo)
         IN  /\ IF delivered
                THEN /\ alert_events' = InsertEvent(alert_events,
                            AlertEvent(ts, rem, w_snap[rem.ca]))
                     /\ recorded' = [recorded EXCEPT ![rem.id] = @ + 1]
                     /\ clock' = ts
                ELSE UNCHANGED <<alert_events, recorded, clock>>
             /\ IF IndexOf(reminders, rem, 1) = 0
                THEN /\ UNCHANGED reminders
                     /\ Abort
                ELSE /\ reminders' = ListRemove(reminders, rem)
                     /\ IF saved THEN Continue(Tail(w_todo), w_snap) ELSE Abort
    /\ UNCHANGED <<next_id, token_cache, w_results, cancelled,
                   payVars, meetsVars, auxVars>>

\* ------------------------------------------------------------------------
\* payments.py: ledger data
\* ------------------------------------------------------------------------

\* config.DONATION_WALLET, a valid address.
DONATION_WALLET == "W"

\* config.USDC_MINT.
USDC_MINT == "USDC"

\* config.PAY_EXPIRY_SEC (an environment setting, 1800 by default).
PAY_EXPIRY_SEC == 1

\* Total number of invoices /pay creates in a run.
MaxInvoices == 2

\* Number of signatures a getSignaturesForAddress reply holds; stands for
\* the limit of 50 of payments.py:55.
MaxSigs == 2

\* Amounts (in base units) users ask to pay.
Amounts == {2}

\* The correlation reference of the n-th invoice: a fresh random key.
Reference(n) == IF n = 1 THEN "R1" ELSE IF n = 2 THEN "R2" ELSE "R3"

NoTx == [keys |-> <<>>, pre |-> <<>>, post |-> <<>>,
         preTok |-> <<>>, postTok |-> <<>>]

NativeTx(keys, pre, post) ==
    [keys |-> keys, pre |-> pre, post |-> post, preTok |-> <<>>, postTok |-> <<>>]

TokenBalance(accountIndex, mint, owner, amount, decimals) ==
    [accountIndex |-> accountIndex, mint |-> mint, owner |-> owner,
     amount |-> amount, decimals |-> decimals]

\* What the ledger can hold: a signature, its transaction (tx), and whether
\* getTransaction returns it in a shape the scan can read (ok = FALSE: the
\* retrieval fails, or the payload makes the parsing of payments.py 61-62
\* raise; both ways the scan goes to the next entry).
LedgerEntries ==
    { \* reference R1, wallet credited 2
      [signature |-> "s1", ok |-> TRUE,
       tx |-> NativeTx(<<"P", "W", "R1">>, <<5, 0, 0>>, <<3, 2, 0>>)],
      \* reference R1, wallet credited 3
      [signature |-> "s2", ok |-> TRUE,
       tx |-> NativeTx(<<"P", "W", "R1">>, <<5, 0, 0>>, <<2, 3, 0>>)],
      \* reference R1, wallet credited 1
      [signature |-> "s3", ok |-> TRUE,
       tx |-> NativeTx(<<"P", "W", "R1">>, <<5, 0, 0>>, <<4, 1, 0>>)],
      \* reference R2 only, wallet credited 2
      [signature |-> "s4", ok |-> TRUE,
       tx |-> NativeTx(<<"P", "W", "R2">>, <<5, 0, 0>>, <<3, 2, 0>>)],
      \* no reference, wallet credited 2
      [signature |-> "s7", ok |-> TRUE,
       tx |-> NativeTx(<<"P", "W">>, <<5, 0>>, <<3, 2>>)],
      \* reference R1, wallet credited 2, the retrieval fails
      [signature |-> "s5", ok |-> FALSE,
       tx |-> NativeTx(<<"P", "W", "R1">>, <<5, 0, 0>>, <<3, 2, 0>>)],
      \* reference R1, token account 4 of the wallet credited 2 USDC
      [signature |-> "s6", ok |-> TRUE,
       tx |-> [keys |-> <<"P", "W", "R1", "T">>,
               pre |-> <<5, 0, 0, 0>>, post |-> <<5, 0, 0, 0>>,
               preTok  |-> <<TokenBalance(4, USDC_MINT, "W", 0, 6)>>,
               postTok |-> <<TokenBalance(4, USDC_MINT, "W", 2, 6)>>]] }

\* ------------------------------------------------------------------------
\* payments.py: matching
\* ------------------------------------------------------------------------

InKeys(k, keys) == \E i \in 1..Len(keys) : keys[i] = k

\* payments.py 66-68: position of the first key equal to k, 0 for None.
RECURSIVE KeyIndex(_, _, _)
KeyIndex(keys, k, i) ==
    IF i > Len(keys) THEN 0
    ELSE IF keys[i] = k THEN i
    ELSE KeyIndex(keys, k, i + 1)

\* _tb_map: account index -> the last balance of the mint listed for it.
RECURSIVE TbLast(_, _, _)
TbLast(tbs, mint, idx) ==
    IF tbs = <<>> THEN [accountIndex |-> 0]
    ELSE LET tb == tbs[Len(tbs)]
         IN  IF tb.mint = mint /\ tb.accountIndex = idx THEN tb
             ELSE TbLast(SubSeq(tbs, 1, Len(tbs) - 1), mint, idx)

TbIndices(tbs, mint) ==
    {tbs[i].accountIndex : i \in {j \in 1..Len(tbs) : tbs[j].mint = mint}}

\* payments.py 41-48: what one token account adds to the total.
TokenAccountDelta(tx, mint, owner_wallet, idx) ==
    LET pre_t    == TbLast(tx.preTok, mint, idx)
        post_t   == TbLast(tx.postTok, mint, idx)
        has_pre  == pre_t.accountIndex # 0
        has_post == post_t.accountIndex # 0
        owner    == IF has_post THEN post_t.owner ELSE pre_t.owner
        dec      == IF has_post THEN post_t.decimals ELSE pre_t.decimals
        pre_amt  == IF has_pre THEN pre_t.amount ELSE 0
        post_amt == IF has_post THEN post_t.amount ELSE 0
        delta    == post_amt - pre_amt
    IN  IF owner # owner_wallet THEN 0
        ELSE IF dec # 6 THEN 0
        ELSE IF delta > 0 THEN delta ELSE 0

RECURSIVE SumOver(_, _, _, _)
SumOver(idxs, tx, mint, owner_wallet) ==
    IF idxs = {} THEN 0
    ELSE LET idx == CHOOSE x \in idxs : TRUE
         IN  TokenAccountDelta(tx, mint, owner_wallet, idx)
               + SumOver(idxs \ {idx}, tx, mint, owner_wallet)

_sum_usdc_delta_for_wallet(tx, mint, owner_wallet) ==
    SumOver(TbIndices(tx.preTok, mint) \cup TbIndices(tx.postTok, mint),
            tx, mint, owner_wallet)

\* A scan that looks at every transaction.
HasReferenceAny(reference, keys) == TRUE

\* payments.py 63: a transaction is looked at only if it names the reference.
HasReference(reference, keys) == InKeys(reference, keys)

\* An amount test that wants more than the amount.
AmountReachedStrict(delta, amount_base) == delta > amount_base

\* payments.py 72 / 75: the amount test.
AmountReached(delta, amount_base) == delta >= amount_base

\* payments.py 61-75 for one retrieved transaction: TRUE when it pays inv.
TxMatches(reference, inv, tx) ==
    IF ~HasReference(reference, tx.keys) THEN FALSE
    ELSE IF inv.asset = "SOL"
         THEN LET idx == KeyIndex(tx.keys, DONATION_WALLET, 1)
              IN  /\ idx # 0
                  /\ idx <= Len(tx.pre)
                  /\ idx <= Len(tx.post)
                  /\ AmountReached(tx.post[idx] - tx.pre[idx], inv.amount_base)
         ELSE AmountReached(
                  _sum_usdc_delta_for_wallet(tx, inv.mint, DONATION_WALLET),
                  inv.amount_base)

\* No signature: the None _find_matching_tx returns.
NoSig == ""

\* A scan that gives up at the first entry it cannot read.
RECURSIVE ScanEntriesStopAtFailure(_, _, _)
ScanEntriesStopAtFailure(reference, inv, entries) ==
    IF entries = <<>> THEN NoSig
    ELSE LET ent == Head(entries)
         IN  IF ~ent.ok THEN NoSig
             ELSE IF TxMatches(reference, inv, ent.tx) THEN ent.signature
             ELSE ScanEntriesStopAtFailure(reference, inv, Tail(entries))

\* payments.py 57-78: the scan of the signature list, newest first.  A
\* failed retrieval gives an empty payload, which names no reference.
RECURSIVE ScanEntries(_, _, _)
ScanEntries(reference, inv, entries) ==
    IF entries = <<>> THEN NoSig
    ELSE LET ent == Head(entries)
             tx  == IF ent.ok THEN ent.tx ELSE NoTx
         IN  IF TxMatches(reference, inv, tx) THEN ent.signature
             ELSE ScanEntries(reference, inv, Tail(entries))

\* ------------------------------------------------------------------------
\* models.py Invoice, bot.py /pay
\* ------------------------------------------------------------------------

Invoice(reference, asset, mint, amount_base, created_ts) ==
    [reference |-> reference, asset |-> asset, mint |-> mint,
     amount_base |-> amount_base, created_ts |-> created_ts,
     status |-> "pending", tx_sig |-> ""]

\* payments.parse_asset_choice: the mint of an asset.
AssetMint(asset) == IF asset = "USDC" THEN USDC_MINT ELSE ""

InitPay ==
    /\ invoices = <<>>
    /\ recent = <<>>
    /\ p_pc = "sleep"
    /\ p_now = 0
    /\ p_changed = FALSE
    /\ p_todo = <<>>
    /\ p_reply = ""
    /\ p_flips = 0
    /\ p_saves = 0
    /\ p_undelivered = FALSE

IdlePay == InitPay

\* /pay: a new pending invoice with a fresh reference, created now.
Pay ==
    /\ Len(invoices) < MaxInvoices
    /\ \E asset \in {"SOL", "USDC"}, amount \in Amounts, ts \in Readings :
         /\ invoices' = Append(invoices,
                Invoice(Reference(Len(invoices) + 1), asset, AssetMint(asset),
                        amount, ts))
         /\ clock' = ts
    /\ UNCHANGED <<recent, p_pc, p_now, p_changed, p_flips, p_saves, p_todo, p_reply,
                   p_undelivered,
                   alertVars, meetsVars, auxVars>>

\* A transaction of the wallet is confirmed on chain: it becomes the newest
\* of the recent signatures, the oldest leaves the window.  A reference is a
\* fresh random key, so no transaction names it before its invoice exists.
Land ==
    /\ \E ent \in LedgerEntries :
         /\ \A i \in 1..Len(recent) : recent[i].signature # ent.signature
         /\ \A n \in 1..(MaxInvoices + 1) :
                InKeys(Reference(n), ent.tx.keys) => n <= Len(invoices)
         /\ recent' = Take(<<ent>> \o recent, MaxSigs)
    /\ UNCHANGED <<invoices, p_pc, p_now, p_changed, p_flips, p_saves, p_todo, p_reply,
                   p_undelivered,
                   clock, alertVars, meetsVars, auxVars>>

\* ------------------------------------------------------------------------
\* payments.py payments_watcher
\* ------------------------------------------------------------------------

\* A loop that looks at every invoice, whatever its status.
IsPendingAlways(inv) == TRUE

\* payments.py 85: only pending invoices are looked at.
IsPending(inv) == inv.status = "pending"

\* An expiry test that is never met.
IsExpiredNever(now, inv) == FALSE

\* payments.py 86: the expiry test, on the cycle's now.
IsExpired(now, inv) == now - inv.created_ts > PAY_EXPIRY_SEC

\* A confirmation that keeps no signature.
MarkPaidNoSig(invs, i, sig) == [invs EXCEPT ![i].status = "paid"]

\* payments.py 97: the invoice becomes paid and records the signature.
MarkPaid(invs, i, sig) ==
    [invs EXCEPT ![i].status = "paid", ![i].tx_sig = sig]

\* payments.py 83-84: a cycle starts.
PStart ==
    /\ p_pc = "sleep"
    /\ \E now \in Readings :
         /\ p_now' = now
         /\ clock' = now
    /\ p_changed' = FALSE
    /\ p_flips' = 0
    /\ p_saves' = 0
    /\ p_undelivered' = FALSE
    /\ p_todo' = [i \in 1..Len(invoices) |-> i]
    /\ p_pc' = "loop"
    /\ p_reply' = ""
    /\ UNCHANGED <<invoices, recent, alertVars, meetsVars, auxVars>>

\* payments.py 84-95: the next invoice of the copy.  A non-pending one is
\* passed over; an expired one is marked and the task suspends in the
\* expiry notification; otherwise the task suspends in the ledger query.
PExamine ==
    /\ p_pc = "loop"
    /\ p_todo # <<>>
    /\ LET i   == Head(p_todo)
           inv == invoices[i]
       IN  IF ~IsPending(inv)
           THEN /\ p_todo' = Tail(p_todo)
                /\ UNCHANGED <<invoices, p_changed, p_flips, p_saves, p_pc>>
           ELSE IF IsExpired(p_now, inv)
           THEN /\ invoices' = [invoices EXCEPT ![i].status = "expired"]
                /\ p_changed' = TRUE
                /\ p_flips' = p_flips + 1
                /\ UNCHANGED p_saves
                /\ p_pc' = "notify"
                /\ UNCHANGED p_todo
           ELSE /\ p_pc' = "scan"
                /\ UNCHANGED <<invoices, p_changed, p_flips, p_saves, p_todo>>
    /\ p_reply' = ""
    /\ UNCHANGED <<recent, p_now, p_undelivered, clock, alertVars, meetsVars,
                   auxVars>>

\* payments.py 95-97, 55-78: the ledger query returns.  kind "none": no
\* reply or a reply without result; "null": a result that is null or holds
\* an entry that is no record, payments.py 57-58 raise outside any try and
\* the task ends; "list": the recent signatures.
PScan ==
    /\ p_pc = "scan"
    /\ \E kind \in {"none", "null", "list"} :
         LET i   == Head(p_todo)
             inv == invoices[i]
             sig == IF kind = "list"
                    THEN ScanEntries(inv.reference, inv, recent) ELSE NoSig
         IN  /\ p_reply' = kind
             /\ IF kind = "null"
                THEN /\ p_pc' = "dead"
                     /\ UNCHANGED <<invoices, p_changed, p_flips, p_saves, p_todo>>
                ELSE IF sig # NoSig
                THEN /\ invoices' = MarkPaid(invoices, i, sig)
                     /\ p_changed' = TRUE
                     /\ p_flips' = p_flips + 1
                     /\ UNCHANGED p_saves
                     /\ p_pc' = "notify"
                     /\ UNCHANGED p_todo
                ELSE /\ p_pc' = "loop"
                     /\ p_todo' = Tail(p_todo)
                     /\ UNCHANGED <<invoices, p_changed, p_flips, p_saves>>
    /\ UNCHANGED <<recent, p_now, p_undelivered, clock, alertVars, meetsVars,
                   auxVars>>

\* payments.py 88-94, 98-106: fetch_channel and send return (delivered) or
\* one of them raises; the failure is caught and logged.  Both ways the
\* loop goes to the next invoice.
PNotify ==
    /\ p_pc = "notify"
    /\ \E delivered \in BOOLEAN :
         p_undelivered' = (p_undelivered \/ ~delivered)
    /\ p_pc' = "loop"
    /\ p_todo' = Tail(p_todo)
    /\ p_reply' = ""
    /\ UNCHANGED <<invoices, recent, p_now, p_changed, p_flips, p_saves,
                   clock, alertVars, meetsVars, auxVars>>

\* A loop that saves the invoices at the end of every cycle.
PFinishSaveAlways ==
    /\ p_pc = "loop"
    /\ p_todo = <<>>
    /\ \E saved \in BOOLEAN :
         p_pc' = IF ~saved THEN "dead" ELSE "sleep"
    /\ p_reply' = ""
    /\ p_now' = 0
    /\ p_changed' = FALSE
    /\ p_flips' = 0
    /\ p_saves' = 1
    /\ UNCHANGED p_undelivered
    /\ UNCHANGED <<invoices, recent, p_todo, clock, alertVars, meetsVars, auxVars>>

\* payments.py 107-108: the copy is exhausted; the invoices are saved if
\* one changed (saved = FALSE: save_invoices raises and the task ends), and
\* the task sleeps.  p_saves counts the calls of save_invoices.
PFinish ==
    /\ p_pc = "loop"
    /\ p_todo = <<>>
    /\ \E saved \in BOOLEAN :
         p_pc' = IF p_changed /\ ~saved THEN "dead" ELSE "sleep"
    /\ p_reply' = ""
    /\ p_now' = 0
    /\ p_changed' = FALSE
    /\ p_flips' = 0
    /\ p_saves' = IF p_changed THEN 1 ELSE 0
    /\ UNCHANGED p_undelivered
    /\ UNCHANGED <<invoices, recent, p_todo, clock, alertVars, meetsVars, auxVars>>

NextPay == Pay \/ Land \/ PStart \/ PExamine \/ PScan \/ PNotify \/ PFinish

\* The payment subsystem: the watcher, /pay and the ledger.
InitPaySpec == IdleAlerts /\ clock = 0 /\ InitPay /\ IdleMeets /\ IdleAux

SpecPay == InitPaySpec /\ [][NextPay]_vars

\* A cycle starts at a later reading of the clock than the latest one.
PStartLater == PStart /\ clock' > clock

\* The event loop resumes the payment watcher: asyncio.sleep returns
\* (payments.py 108) and the awaited RPC and discord calls return or raise.
\* Time passes while the task sleeps, so of the cycles that start, some
\* start at a later time.
PayFairness ==
    /\ WF_vars(PStart)
    /\ SF_vars(PStartLater)
    /\ WF_vars(PExamine)
    /\ WF_vars(PScan)
    /\ WF_vars(PNotify)
    /\ WF_vars(PFinish)

SpecPayFair == SpecPay /\ PayFairness

\* ------------------------------------------------------------------------
\* helpers.meets on its own
\* ------------------------------------------------------------------------

\* A call meets(dir_, current, target) returns.
MeetsCall ==
    /\ \E d \in Directions, c \in (0..6) \cup {Null}, t \in 0..6 :
         /\ m_dir' = d
         /\ m_current' = c
         /\ m_target' = t
         /\ m_result' = IF meets(d, c, t) THEN "true" ELSE "false"
    /\ UNCHANGED <<alertVars, payVars, auxVars, clock>>

InitMeets == IdleAlerts /\ clock = 0 /\ IdlePay /\ IdleMeets /\ IdleAux

SpecMeets == InitMeets /\ [][MeetsCall]_vars

\* ------------------------------------------------------------------------
\* payments.py _find_matching_tx on a token invoice, on its own
\* ------------------------------------------------------------------------

\* Largest token amount (base units) a balance or an invoice holds.
MaxTokAmount == 2

TokAmounts == 0..MaxTokAmount

\* A transaction naming reference R1 with two token accounts (key indices
\* 4 and 5), each listed before and after.  Account 4 is a USDC account of
\* the wallet; account 5 varies in owner, mint and decimals.
TokTx(pre4, post4, owner5, mint5, dec5, pre5, post5) ==
    [keys    |-> <<"P", "W", "R1", "T", "U">>,
     pre     |-> <<5, 0, 0, 0, 0>>,
     post    |-> <<5, 0, 0, 0, 0>>,
     preTok  |-> <<TokenBalance(4, USDC_MINT, DONATION_WALLET, pre4, 6),
                   TokenBalance(5, mint5, owner5, pre5, dec5)>>,
     postTok |-> <<TokenBalance(4, USDC_MINT, DONATION_WALLET, post4, 6),
                   TokenBalance(5, mint5, owner5, post5, dec5)>>]

TokInputs ==
    {TokTx(pre4, post4, owner5, mint5, dec5, pre5, post5) :
        pre4 \in TokAmounts, post4 \in TokAmounts,
        owner5 \in {DONATION_WALLET, "X"}, mint5 \in {USDC_MINT, "OTHER"},
        dec5 \in {6, 9}, pre5 \in TokAmounts, post5 \in TokAmounts}

\* payments.py 61-75 applied to the transaction for a USDC invoice.
TokCall ==
    /\ t_result = "unset"
    /\ t_result' =
         IF TxMatches("R1", Invoice("R1", "USDC", USDC_MINT, t_amount, 0), t_tx)
         THEN "true" ELSE "false"
    /\ UNCHANGED <<t_tx, t_amount, alertVars, payVars, meetsVars,
                   consVars, lockVars, dexVars, clock>>

InitTok ==
    /\ IdleAlerts /\ clock = 0 /\ IdlePay /\ IdleMeets /\ IdleCons /\ IdleLock
    /\ IdleDex
    /\ t_tx \in TokInputs
    /\ t_amount \in 1..MaxTokAmount
    /\ t_result = "unset"

SpecTok == InitTok /\ [][TokCall]_vars

\* ------------------------------------------------------------------------
\* dex.py choose_consensus_pair: the consensus value, on its own
\* ------------------------------------------------------------------------

\* Largest number of pairs with a value in one call.
MaxPairs == 4

\* The values of the pairs.
ValuePool == {100, 105, 110, 1000000}

\* A float is carried as an integer number of steps of 1 / Ulps, so that
\* a rounding error of a few units in the last place is a difference of a
\* few steps.  (A double has 2^46 steps per unit at 105; the model takes
\* 16, more than any error involved, so that order and equality of the
\* values are those of the doubles.)
Ulps == 16

\* float(v) of a pair's value.
Float(v) == v * Ulps

\* math.log10 of a value of the pool, in units of 1 / 10000.
Log10(f) ==
    CASE f = Float(100)     -> 20000
      [] f = Float(105)     -> 20212
      [] f = Float(110)     -> 20414
      [] f = Float(1000000) -> 60000

\* 10 ** x for x the log10 of a value of the pool, as a double computes
\* it: 10 ** log10(105) is 105.00000000000004, three steps above 105, and
\* 10 ** log10(110) is 109.99999999999997, two steps below 110; log10 of
\* 100 and of 1000000 is an integer and the power is exact.
Pow10(x) ==
    CASE x = 20000 -> Float(100)
      [] x = 20212 -> Float(105) + 3
      [] x = 20414 -> Float(110) - 2
      [] x = 60000 -> Float(1000000)

\* sorted(): ascending, by insertion.
RECURSIVE InsertAsc(_, _)
InsertAsc(sorted, x) ==
    IF sorted = <<>> THEN <<x>>
    ELSE IF x <= Head(sorted) THEN <<x>> \o sorted
    ELSE <<Head(sorted)>> \o InsertAsc(Tail(sorted), x)

\* The values as they come, unsorted.
SortAscKeepOrder(vals) == vals

RECURSIVE SortAsc(_)
SortAsc(vals) ==
    IF vals = <<>> THEN <<>>
    ELSE InsertAsc(SortAsc(Tail(vals)), Head(vals))

\* helpers._percentile for p = quarters / 4, in units of one quarter: four
\* times the interpolated value.
_percentile(sorted_vals, quarters) ==
    LET k4 == (Len(sorted_vals) - 1) * quarters
        f  == k4 \div 4
        r  == k4 % 4
        c  == IF r = 0 THEN f ELSE f + 1
    IN  4 * sorted_vals[f + 1] + (sorted_vals[c + 1] - sorted_vals[f + 1]) * r

\* A median that takes the upper middle value of an even count.
_median_upper(vals) ==
    LET s == SortAsc(vals)
        n == Len(s)
    IN  IF n = 0 THEN 0 ELSE 2 * s[n \div 2 + 1]

\* helpers._median, in units of one half: twice the median.
_median(vals) ==
    LET s == SortAsc(vals)
        n == Len(s)
    IN  IF n = 0 THEN 0
        ELSE IF n % 2 = 1 THEN 2 * s[n \div 2 + 1]
        ELSE s[n \div 2] + s[n \div 2 + 1]

\* dex.py 81-84: the logs within the fences, of at least 3 sorted logs.
\* Fences are compared in eighths.
WithinFences(logs) ==
    LET q1  == _percentile(logs, 1)
        q3  == _percentile(logs, 3)
        iqr == q3 - q1
        lo  == 2 * q1 - 3 * iqr
        hi  == 2 * q3 + 3 * iqr
    IN  SelectSeq(logs, LAMBDA x : lo <= 8 * x /\ 8 * x <= hi)

\* dex.py 80-88: the consensus of the values of the valid pairs (floats),
\* twice the value, the unit of _median.
Consensus(valid) ==
    LET logs == SortAsc([i \in 1..Len(valid) |-> Log10(valid[i])])
    IN  IF Len(logs) >= 3
        THEN LET in   == WithinFences(logs)
                 kept == [i \in 1..Len(in) |-> Pow10(in[i])]
             IN  _median(IF Len(kept) >= 2 THEN kept ELSE valid)
        ELSE _median(valid)

\* The orders of n items.
PairOrders(n) ==
    {o \in [1..n -> 1..n] : \A i, j \in 1..n : o[i] = o[j] => i = j}

\* choose_consensus_pair is called on the pairs and on the same pairs in
\* another order.
ConsCall ==
    /\ c_out = Null
    /\ c_out' = Consensus([i \in 1..Len(c_valid) |-> Float(c_valid[i])])
    /\ c_out_perm' = Consensus([i \in 1..Len(c_perm) |-> Float(c_perm[i])])
    /\ UNCHANGED <<c_valid, c_perm, alertVars, payVars, meetsVars,
                   tokVars, lockVars, dexVars, clock>>

InitCons ==
    /\ IdleAlerts /\ clock = 0 /\ IdlePay /\ IdleMeets /\ IdleTok /\ IdleLock
    /\ IdleDex
    /\ \E n \in 1..MaxPairs :
         \E valid \in [1..n -> ValuePool], o \in PairOrders(n) :
             /\ c_valid = valid
             /\ c_perm = [i \in 1..n |-> valid[o[i]]]
    /\ c_out = Null
    /\ c_out_perm = Null

SpecCons == InitCons /\ [][ConsCall]_vars

\* ------------------------------------------------------------------------
\* dex.py: fetch_dex_token, resolve_mc_value and choose_consensus_pair
\* ------------------------------------------------------------------------

\* config.py 17.
SOLANA_USE_FDV == TRUE

\* config.py 18.
DEX_BLACKLIST == {"heaven"}

\* Largest number of pairs in one payload.
MaxDexPairs == 2

\* The token identifiers asked for: one in the base58 alphabet and of the
\* length of a Solana address, one that starts with 0x.
Cas == {"MintAbc", "0xAbC"}

\* helpers.is_solana_address on the strings of the model.
is_solana_address(addr) == addr \in {"MintAbc", "mintabc"}

\* str.lower on the strings of the model.
Lower(str) ==
    CASE str = "MintAbc" -> "mintabc"
      [] str = "0xAbC"   -> "0xabc"
      [] str = "Heaven"  -> "heaven"
      [] OTHER           -> str

\* A field of a pair that float() cannot parse.
Unparseable == -4

\* float("nan"), the value of a candidate without a value.
NaN == -5

\* One pair of the payload.  A value field holds a number, Null (absent)
\* or Unparseable.
Pair(address, chainId, dexId, fdv, marketCap, priceUsd, supply, liq, vol, tx) ==
    [address |-> address, chainId |-> chainId, dexId |-> dexId,
     fdv |-> fdv, marketCap |-> marketCap, priceUsd |-> priceUsd,
     supply |-> supply, liq |-> liq, vol |-> vol, tx |-> tx]

\* dex.py 8-17: what the call returns for what the external call does:
\* "transport" and "timeout" raise inside the try, "status" is a reply
\* other than 200, "body" a reply whose body r.json() cannot parse, "ok" a
\* reply with the payload.
ExtOutcomes == {"transport", "timeout", "status", "body", "ok"}

\* None, as returned.
NoData == [raised |-> FALSE, none |-> TRUE, pairs |-> <<>>]

\* A fetch that parses the body outside the try block.
fetch_dex_token_json_outside(ext, payload) ==
    IF ext = "ok" THEN [raised |-> FALSE, none |-> FALSE, pairs |-> payload]
    ELSE IF ext = "body" THEN [raised |-> TRUE, none |-> FALSE, pairs |-> <<>>]
    ELSE NoData

fetch_dex_token(ext, payload) ==
    IF ext = "ok" THEN [raised |-> FALSE, none |-> FALSE, pairs |-> payload]
    ELSE NoData

\* dex.py 24-28: a field is taken if it is there, parses and is positive.
Accepted(val) == val # Null /\ val # Unparseable /\ val > 0

\* A resolver that takes marketCap first on every chain.
resolve_mc_value_mc_first(pair, ca) ==
    LET price  == IF pair.priceUsd = Null THEN 0 ELSE pair.priceUsd
        supply == IF pair.supply = Null THEN 0 ELSE pair.supply
    IN  IF Accepted(pair.marketCap)
        THEN [mc |-> pair.marketCap, src |-> "marketCap"]
        ELSE IF Accepted(pair.fdv) THEN [mc |-> pair.fdv, src |-> "fdv"]
        ELSE IF /\ price # Unparseable /\ supply # Unparseable
                /\ price > 0 /\ supply > 0
             THEN [mc |-> price * supply, src |-> "computed"]
        ELSE [mc |-> Null, src |-> "none"]

\* dex.py 19-34.
resolve_mc_value(pair, ca) ==
    LET is_sol == pair.chainId = "solana" \/ is_solana_address(ca)
        first  == IF SOLANA_USE_FDV /\ is_sol THEN "fdv" ELSE "marketCap"
        second == IF first = "fdv" THEN "marketCap" ELSE "fdv"
        Field(key) == IF key = "fdv" THEN pair.fdv ELSE pair.marketCap
        price  == IF pair.priceUsd = Null THEN 0 ELSE pair.priceUsd
        supply == IF pair.supply = Null THEN 0 ELSE pair.supply
    IN  IF Accepted(Field(first)) THEN [mc |-> Field(first), src |-> first]
        ELSE IF Accepted(Field(second))
             THEN [mc |-> Field(second), src |-> second]
        ELSE IF /\ price # Unparseable /\ supply # Unparseable
                /\ price > 0 /\ supply > 0
             THEN [mc |-> price * supply, src |-> "computed"]
        ELSE [mc |-> Null, src |-> "none"]

\* dex.py 36-37.
_not_blacklisted(p) == Lower(p.dexId) \notin DEX_BLACKLIST

\* dex.py 60-65: filtered, as the positions of the pairs kept.
SelectPairs(pairs, ca) ==
    SelectSeq([i \in 1..Len(pairs) |-> i],
              LAMBDA i :
                 /\ IF is_solana_address(ca)
                    THEN pairs[i].chainId = "solana" /\ pairs[i].address = ca
                    ELSE Lower(pairs[i].address) = Lower(ca)
                 /\ _not_blacklisted(pairs[i]))

\* dex.py 68-76: one candidate per pair kept.
Candidate(pairs, i, ca) ==
    LET r == resolve_mc_value(pairs[i], ca)
    IN  IF r.mc # Null /\ r.mc > 0
        THEN [p |-> i, mc |-> Float(r.mc), liq |-> pairs[i].liq,
              vol |-> pairs[i].vol, src |-> r.src]
        ELSE [p |-> i, mc |-> NaN, liq |-> pairs[i].liq,
              vol |-> pairs[i].vol, src |-> "none"]

\* dex.py 93: the deviation of a candidate from the consensus (consensus
\* is positive; both sides of a comparison are divided by it alike), in
\* the unit of _median.
Deviation(mc, consensus) ==
    IF 2 * mc >= consensus THEN 2 * mc - consensus ELSE consensus - 2 * mc

\* A comparison of keys that prefers the lower liquidity.
KeyLessLowLiq(a, b, consensus) ==
    LET da == Deviation(a.mc, consensus)
        db == Deviation(b.mc, consensus)
    IN  \/ da < db
        \/ da = db /\ a.liq < b.liq
        \/ da = db /\ a.liq = b.liq /\ a.vol > b.vol

\* dex.py 94-95: key < best_key on (rel, -liq, -vol).
KeyLess(a, b, consensus) ==
    LET da == Deviation(a.mc, consensus)
        db == Deviation(b.mc, consensus)
    IN  \/ da < db
        \/ da = db /\ a.liq > b.liq
        \/ da = db /\ a.liq = b.liq /\ a.vol > b.vol

\* A loop that does not pass over the candidates without a value: no key
\* compares below a key with nan, nor a key with nan below another.
RECURSIVE BestLoopTakesNaN(_, _, _)
BestLoopTakesNaN(cands, best, consensus) ==
    IF cands = <<>> THEN best
    ELSE LET c == Head(cands)
         IN  IF best = <<>>
             THEN BestLoopTakesNaN(Tail(cands), <<c>>, consensus)
             ELSE IF /\ c.mc # NaN /\ best[1].mc # NaN
                     /\ KeyLess(c, best[1], consensus)
             THEN BestLoopTakesNaN(Tail(cands), <<c>>, consensus)
             ELSE BestLoopTakesNaN(Tail(cands), best, consensus)

\* dex.py 90-95: the loop over cands; best is <<>> (None) or holds the
\* candidate kept.
RECURSIVE BestLoop(_, _, _)
BestLoop(cands, best, consensus) ==
    IF cands = <<>> THEN best
    ELSE LET c == Head(cands)
         IN  IF c.mc = NaN THEN BestLoop(Tail(cands), best, consensus)
             ELSE IF best = <<>> \/ KeyLess(c, best[1], consensus)
             THEN BestLoop(Tail(cands), <<c>>, consensus)
             ELSE BestLoop(Tail(cands), best, consensus)

\* dex.py 58-96: best is the position of the best pair in pairs, 0 for
\* None; consensus is in the unit of _median.
choose_consensus_pair(pairs, ca) ==
    IF pairs = <<>> THEN NoChoice
    ELSE LET filtered == SelectPairs(pairs, ca)
         IN  IF filtered = <<>> THEN NoChoice
             ELSE LET cands == [k \in 1..Len(filtered) |->
                                   Candidate(pairs, filtered[k], ca)]
                      valued == SelectSeq(cands, LAMBDA c : c.mc # NaN)
                      valid  == [k \in 1..Len(valued) |-> valued[k].mc]
                  IN  IF valid = <<>>
                      THEN [best |-> 0, consensus |-> 0, cands |-> cands]
                      ELSE LET consensus == Consensus(valid)
                               best == BestLoop(cands, <<>>, consensus)
                           IN  [best |-> IF best = <<>> THEN 0 ELSE best[1].p,
                                consensus |-> consensus, cands |-> cands]

\* The addresses, chains and venues of the pairs of a payload.
Addresses == {"MintAbc", "mintabc", "0xAbC", "0xabc"}
Chains == {"solana", "ethereum"}
Venues == {"raydium", "Heaven"}

\* The pairs of a payload: pairs of every address, chain and venue, with
\* or without a value; pairs of the token asked for, of different values,
\* liquidity and volume; and pairs of the token whose fdv is zero,
\* negative or unparseable, with or without a price and a supply.
DexPairs(ca) ==
    {Pair(a, c, d, f, Null, Null, Null, 0, 0, 0) :
        a \in Addresses, c \in Chains, d \in Venues, f \in {Null, 100}}
    \cup
    {Pair(ca, "solana", "raydium", f, Null, Null, Null, l, v, 0) :
        f \in {Null, 100, 105, 110}, l \in {0, 1}, v \in {0, 1}}
    \cup
    {Pair(ca, "solana", "raydium", f, Null, p, s, 0, 0, 0) :
        f \in {0, -100, Unparseable}, p \in {Null, -10, 10}, s \in {Null, 10}}

\* dex.py 8-17: the external call ends and fetch_dex_token returns.
DexFetch ==
    /\ d_pc = "call"
    /\ d_data' = fetch_dex_token(d_ext, d_pairs)
    /\ d_pc' = IF d_data'.raised THEN "raised" ELSE "returned"
    /\ UNCHANGED <<d_ca, d_ext, d_pairs, d_out, d_snap, alertVars, payVars,
                   meetsVars, tokVars, consVars, lockVars, clock>>

\* A snapshot value that is 0 where the token has no value.
SnapshotValueZero(choice, pairs, ca) ==
    IF choice.best = 0 THEN TokenSnapshot(0, "none")
    ELSE LET r == resolve_mc_value(pairs[choice.best], ca)
         IN  TokenSnapshot(r.mc, r.src)

\* alerts.py 21-26, 35-40: the value and source of the snapshot: None and
\* "none" unless there is a best pair, else what resolve_mc_value gives
\* for it.
SnapshotValue(choice, pairs, ca) ==
    IF choice.best = 0 THEN TokenSnapshot(Null, "none")
    ELSE LET r == resolve_mc_value(pairs[choice.best], ca)
         IN  TokenSnapshot(r.mc, r.src)

\* alerts.py 21-40: the watcher goes on with the value returned: without
\* data or without pairs the token has no value ("nodata"), otherwise the
\* consensus engine is asked ("chosen"); both ways the token's entry is
\* written.
DexRefresh ==
    /\ d_pc = "returned"
    /\ IF ~d_data.none /\ d_data.pairs # <<>>
       THEN /\ d_out' = choose_consensus_pair(d_data.pairs, d_ca)
            /\ d_pc' = "chosen"
       ELSE /\ d_out' = NoChoice
            /\ d_pc' = "nodata"
    /\ d_snap' = SnapshotValue(d_out', d_data.pairs, d_ca)
    /\ UNCHANGED <<d_ca, d_ext, d_pairs, d_data, alertVars, payVars, meetsVars,
                   tokVars, consVars, lockVars, clock>>

\* bot.py 109-126, cache.py 10-17: /mc goes on with the value returned:
\* without data, without pairs or without a best pair it answers with a
\* rejection and writes nothing; otherwise update_cache writes the entry
\* with the value of the best pair.
DexMc ==
    /\ d_pc = "returned"
    /\ IF ~d_data.none /\ d_data.pairs # <<>>
       THEN LET choice == choose_consensus_pair(d_data.pairs, d_ca)
            IN  /\ d_out' = choice
                /\ IF choice.best = 0
                   THEN /\ d_pc' = "rejected"
                        /\ UNCHANGED d_snap
                   ELSE /\ d_pc' = "updated"
                        /\ d_snap' = SnapshotValue(choice, d_data.pairs, d_ca)
       ELSE /\ d_pc' = "rejected"
            /\ UNCHANGED <<d_out, d_snap>>
    /\ UNCHANGED <<d_ca, d_ext, d_pairs, d_data, alertVars, payVars, meetsVars,
                   tokVars, consVars, lockVars, clock>>

InitDex ==
    /\ IdleAlerts /\ clock = 0 /\ IdlePay /\ IdleMeets
    /\ IdleTok /\ IdleCons /\ IdleLock
    /\ d_ca \in Cas
    /\ d_ext \in ExtOutcomes
    /\ \E n \in 0..MaxDexPairs :
         d_pairs \in [1..n -> DexPairs(d_ca)]
    /\ d_ext # "ok" => d_pairs = <<>>
    /\ d_pc = "call"
    /\ d_data = NoData
    /\ d_out = NoChoice
    /\ d_snap = NoSnapshot

\* One fetch of a token and the caller's use of what it returns.
SpecDex == InitDex /\ [][DexFetch \/ DexRefresh \/ DexMc]_vars

\* The pairs resolve_mc_value is called on: the best pair of
\* choose_consensus_pair, which for a Solana address is a pair on Solana.
ResolvePairs(ca) ==
    {Pair(ca, c, "raydium", f, m, p, s, 0, 0, 0) :
        c \in IF is_solana_address(ca) THEN {"solana"} ELSE Chains,
        f \in {Null, Unparseable, 0, -100, 100, 105},
        m \in {Null, Unparseable, 0, -100, 100, 105},
        p \in {Null, Unparseable, 0, -2, 2},
        s \in {Null, Unparseable, 0, -2, 2}}

\* resolve_mc_value is called on a pair.
ResolveCall ==
    /\ d_pc = "resolve"
    /\ d_out' = resolve_mc_value(d_pairs[1], d_ca)
    /\ d_pc' = "resolved"
    /\ UNCHANGED <<d_ca, d_ext, d_pairs, d_data, d_snap, alertVars, payVars,
                   meetsVars, tokVars, consVars, lockVars, clock>>

InitResolve ==
    /\ IdleAlerts /\ clock = 0 /\ IdlePay /\ IdleMeets
    /\ IdleTok /\ IdleCons /\ IdleLock
    /\ d_ca \in Cas
    /\ d_ext = ""
    /\ \E pair \in ResolvePairs(d_ca) : d_pairs = <<pair>>
    /\ d_pc = "resolve"
    /\ d_data = NoData
    /\ d_out = NoChoice
    /\ d_snap = NoSnapshot

SpecResolve == InitResolve /\ [][ResolveCall]_vars

\* ------------------------------------------------------------------------
\* dex.py summarize_lp_venues
\* ------------------------------------------------------------------------

\* constants.LP_VENUES, the venues of the allow-list.
LP_VENUES == {"meteora", "raydium", "pumpswap"}

\* constants.DEX_ALIASES, the alias table: raw venue identifier -> venue.
DEX_ALIASES == [id \in {"raydium-clmm"} |-> "raydium"]

\* dex.py 54-56.
_dex_alias(p) ==
    IF Lower(p.dexId) \in DOMAIN DEX_ALIASES
    THEN DEX_ALIASES[Lower(p.dexId)] ELSE Lower(p.dexId)

\* math.log10(1 + x), in units of 1 / 100000, for the totals of up to
\* three pools of the model.
LogOnePlus(x) ==
    CASE x = 0 -> 0
      [] x = 9 -> 100000
      [] x = 18 -> 127875
      [] x = 27 -> 144716
      [] x = 99 -> 200000
      [] x = 198 -> 229885
      [] x = 297 -> 247422
      [] x = 999 -> 300000
      [] x = 1098 -> 304100
      [] x = 1197 -> 307846
      [] x = 1998 -> 330081
      [] x = 2097 -> 332181
      [] x = 2997 -> 347683

\* dex.py 51-52, in units of 1 / 1000000.  On the totals of the model the
\* order and the ties of these scores are those of the float scores.
_lp_score(liq, vol, tx) ==
    5 * LogOnePlus(liq) + 4 * LogOnePlus(vol) + 2 * LogOnePlus(tx)

RECURSIVE SumSeq(_)
SumSeq(nums) == IF nums = <<>> THEN 0 ELSE Head(nums) + SumSeq(Tail(nums))

\* dex.py 118, 121: the pool of a venue with the highest liquidity, the
\* first pool to start with (its position stands for its url).
RECURSIVE BestPool(_, _, _, _)
BestPool(idxs, pairs, best_liq, best_url) ==
    IF idxs = <<>> THEN best_url
    ELSE IF pairs[Head(idxs)].liq > best_liq
         THEN BestPool(Tail(idxs), pairs, pairs[Head(idxs)].liq, Head(idxs))
         ELSE BestPool(Tail(idxs), pairs, best_liq, best_url)

\* dex.py 118-122: the totals of one venue over its pools (the quote
\* symbols counted at 120 are not modelled).
VenueTotals(idxs, pairs) ==
    LET liq == SumSeq([k \in 1..Len(idxs) |-> pairs[idxs[k]].liq])
        vol == SumSeq([k \in 1..Len(idxs) |-> pairs[idxs[k]].vol])
        tx  == SumSeq([k \in 1..Len(idxs) |-> pairs[idxs[k]].tx])
    IN  [pools |-> Len(idxs), liq |-> liq, vol |-> vol, tx |-> tx,
         best_url |-> BestPool(idxs, pairs, 0, idxs[1]),
         score |-> _lp_score(liq, vol, tx)]

\* The venues of the pools in the order in which agg.setdefault first
\* sees them.
RECURSIVE VenueOrder(_, _, _)
VenueOrder(idxs, pairs, seen) ==
    IF idxs = <<>> THEN seen
    ELSE LET v == _dex_alias(pairs[Head(idxs)])
         IN  IF \E k \in 1..Len(seen) : seen[k] = v
             THEN VenueOrder(Tail(idxs), pairs, seen)
             ELSE VenueOrder(Tail(idxs), pairs, Append(seen, v))

\* A ranking that puts the lower liquidity first among equal scores.
RankBeforeLowLiq(a, b) ==
    \/ a.score > b.score
    \/ a.score = b.score /\ a.liq < b.liq
    \/ a.score = b.score /\ a.liq = b.liq /\ a.vol > b.vol

\* dex.py 123: the sort key (-score, -liq, -vol) of a is below that of b.
RankBefore(a, b) ==
    \/ a.score > b.score
    \/ a.score = b.score /\ a.liq > b.liq
    \/ a.score = b.score /\ a.liq = b.liq /\ a.vol > b.vol

\* dex.py 123-124: ranked[0] of the stable sort: the first venue, in the
\* order of agg, that no other venue ranks before.
RECURSIVE RankedFirst(_, _, _)
RankedFirst(order, agg, best) ==
    IF order = <<>> THEN best
    ELSE IF best = "" \/ RankBefore(agg[Head(order)], agg[best])
         THEN RankedFirst(Tail(order), agg, Head(order))
         ELSE RankedFirst(Tail(order), agg, best)

\* dex.py 103-125: agg maps the venues seen to their totals; best is the
\* name of the first venue of the ranking, "" for None.
summarize_lp_venues(pairs, ca) ==
    LET flt   == SelectPairs(pairs, ca)
        elig  == SelectSeq(flt, LAMBDA i : _dex_alias(pairs[i]) \in LP_VENUES)
        order == VenueOrder(elig, pairs, <<>>)
        agg   == [v \in {order[k] : k \in 1..Len(order)} |->
                     VenueTotals(SelectSeq(elig,
                         LAMBDA i : _dex_alias(pairs[i]) = v), pairs)]
    IN  [agg |-> agg, best |-> RankedFirst(order, agg, "")]

\* The venue identifiers of the pairs of a payload.
LpVenueIds == {"raydium", "raydium-clmm", "meteora", "orca"}

\* The pairs of a payload: pools of the token asked for on every venue,
\* of different liquidity, volume and transaction count, and a pool of
\* another token.
LpPairs(ca) ==
    {Pair(ca, "solana", d, Null, Null, Null, Null, l, v, t) :
        d \in LpVenueIds, l \in {0, 99}, v \in {0, 9}, t \in {0, 99, 999}}
    \cup {Pair("mintabc", "solana", "raydium", Null, Null, Null, Null, 99, 9, 99)}

\* bot.py 80-83: /mc_lp has pairs and calls summarize_lp_venues.
LpCall ==
    /\ d_pc = "summarize"
    /\ d_out' = summarize_lp_venues(d_pairs, d_ca)
    /\ d_pc' = "summarized"
    /\ UNCHANGED <<d_ca, d_ext, d_pairs, d_data, d_snap, alertVars, payVars,
                   meetsVars, tokVars, consVars, lockVars, clock>>

InitLp ==
    /\ IdleAlerts /\ clock = 0 /\ IdlePay /\ IdleMeets
    /\ IdleTok /\ IdleCons /\ IdleLock
    /\ d_ca \in Cas
    /\ d_ext = ""
    /\ \E n \in 1..MaxDexPairs :
         d_pairs \in [1..n -> LpPairs(d_ca)]
    /\ d_pc = "summarize"
    /\ d_data = NoData
    /\ d_out = NoChoice
    /\ d_snap = NoSnapshot

SpecLp == InitLp /\ [][LpCall]_vars

\* ------------------------------------------------------------------------
\* cache.TOKEN_CACHE_LOCK and the code of the tasks that take it
\* ------------------------------------------------------------------------

\* One statement of a task: what it does to the lock or to the event loop,
\* and its line.  "await": a network call or a message delivery; "store":
\* a save_* call; "sleep": asyncio.sleep; "acquire" / "release": entering
\* and leaving `async with TOKEN_CACHE_LOCK`; "work": statements that do
\* not await.
Op(op, line) == [op |-> op, line |-> line]

\* The statements at which a task hands control back to the event loop.
Suspends(op) == op \in {"await", "store", "sleep"}

\* A watcher that gathers the fetches inside the lock.
WatcherCodeAwaitInLock ==
    <<Op("acquire", 18), Op("await", 17), Op("work", 19), Op("release", 40),
      Op("acquire", 42), Op("work", 43), Op("release", 43),
      Op("await", 49), Op("await", 57), Op("await", 62),
      Op("store", 69), Op("store", 73), Op("sleep", 76)>>

\* alerts.py 13-76: one turn of the watcher's loop with a rule that fires.
WatcherCode ==
    <<Op("await", 17), Op("acquire", 18), Op("work", 19), Op("release", 40),
      Op("acquire", 42), Op("work", 43), Op("release", 43),
      Op("await", 49), Op("await", 57), Op("await", 62),
      Op("store", 69), Op("store", 73), Op("sleep", 76)>>

\* bot.py 103-143 with cache.update_cache (cache.py 10-17) inlined.
McCode ==
    <<Op("await", 103), Op("await", 108), Op("work", 111),
      Op("acquire", 12), Op("work", 13), Op("release", 17),
      Op("work", 128), Op("store", 142), Op("await", 143)>>

\* bot.py 150-214: /mc_list.
McListCode ==
    <<Op("await", 155), Op("acquire", 172), Op("work", 173),
      Op("release", 173), Op("await", 188), Op("await", 214)>>

\* bot.py 235-256: /mc_recent.
McRecentCode ==
    <<Op("await", 236), Op("await", 247), Op("acquire", 249),
      Op("work", 250), Op("release", 250), Op("await", 256)>>

Code(t) ==
    CASE t = "watcher"   -> WatcherCode
      [] t = "mc"        -> McCode
      [] t = "mc_list"   -> McListCode
      [] t = "mc_recent" -> McRecentCode

\* The statement after position pc: the watcher loops, a command handler
\* returns (0) after its last statement.
NextPc(t, pc) ==
    IF pc < Len(Code(t)) THEN pc + 1
    ELSE IF t = "watcher" THEN 1 ELSE 0

\* The event loop, with no task running, runs a task: a command is invoked
\* or the watcher starts (position 0), the call a task is suspended in
\* returns, or the lock a task waits for is free.
LResume ==
    /\ l_run = "none"
    /\ \E t \in LockTasks :
         LET pc == l_pc[t]
         IN  \/ /\ pc = 0
                /\ l_pc' = [l_pc EXCEPT ![t] = 1]
                /\ l_run' = t
             \/ /\ pc > 0
                /\ Suspends(Code(t)[pc].op)
                /\ l_pc' = [l_pc EXCEPT ![t] = NextPc(t, pc)]
                /\ l_run' = IF NextPc(t, pc) = 0 THEN "none" ELSE t
             \/ /\ pc > 0
                /\ Code(t)[pc].op = "acquire"
                /\ l_lock = "free"
                /\ l_run' = t
                /\ UNCHANGED l_pc
    /\ UNCHANGED <<l_lock, alertVars, payVars, meetsVars, tokVars, consVars,
                   dexVars, clock>>

\* The running task executes its statement: it suspends in a call, takes
\* the lock (or waits for it), releases it, or works on.
LStep ==
    /\ l_run # "none"
    /\ LET t  == l_run
           pc == l_pc[t]
           op == Code(t)[pc].op
       IN  IF Suspends(op)
           THEN /\ l_run' = "none"
                /\ UNCHANGED <<l_pc, l_lock>>
           ELSE IF op = "acquire"
           THEN IF l_lock = "free"
                THEN /\ l_lock' = t
                     /\ l_pc' = [l_pc EXCEPT ![t] = NextPc(t, pc)]
                     /\ UNCHANGED l_run
                ELSE /\ l_run' = "none"
                     /\ UNCHANGED <<l_pc, l_lock>>
           ELSE /\ l_lock' = IF op = "release" THEN "free" ELSE l_lock
                /\ l_pc' = [l_pc EXCEPT ![t] = NextPc(t, pc)]
                /\ UNCHANGED l_run
    /\ UNCHANGED <<alertVars, payVars, meetsVars, tokVars, consVars, dexVars,
                   clock>>

InitLock ==
    /\ IdleAlerts /\ clock = 0 /\ IdlePay /\ IdleMeets /\ IdleTok /\ IdleCons
    /\ IdleDex
    /\ IdleLock

SpecLock == InitLock /\ [][LResume \/ LStep]_vars

Next == Mc \/ McRemove \/ WStart \/ WFetched \/ WRefresh \/ WDeliver

\* The alert subsystem: the watcher and the /mc, /mc_remove commands.  The
\* clock starts after the newest stored event.
Init == InitAlerts /\ clock = 1 /\ IdlePay /\ IdleMeets /\ IdleAux

Spec == Init /\ [][Next]_vars

\* The event loop resumes the watcher: asyncio.sleep returns (alerts.py 76)
\* and the awaited fetches and discord calls return or raise.
WatcherFairness ==
    /\ WF_vars(WStart)
    /\ WF_vars(WFetched)
    /\ WF_vars(WRefresh)
    /\ WF_vars(WDeliver)

SpecFair == Spec /\ WatcherFairness

\* ========================================================================
\* Properties of the alert subsystem (Spec)
\* ========================================================================

ActiveIds == {reminders[i].id : i \in 1..Len(reminders)}

\* The rule the watcher has in hand, suspended in its delivery.
InDelivery(id) == w_pc = "deliver" /\ Head(w_todo).id = id

\* C1: no rule is fired more than once: for every rule, its predicate leads
\* to at most one notification attempt and at most one AlertEvent, whatever
\* the interleaving of cycles, /mc and /mc_remove.
C1_AtMostOnce ==
    \A id \in RuleIds : matched[id] <= 1 /\ recorded[id] <= 1

\* A rule has fired with its event, and a later cycle is already fetching.
C1_Witness ==
    /\ w_pc = "fetch"
    /\ \E id \in RuleIds : matched[id] = 1 /\ recorded[id] = 1

\* C2: once a rule's predicate has matched and the watcher is through with
\* it, exactly one AlertEvent exists for it and it is no longer active,
\* whether or not the delivery succeeded.
C2_FireRecordsEvent ==
    \A id \in RuleIds :
        (matched[id] >= 1 /\ ~InDelivery(id))
            => (recorded[id] = 1 /\ id \notin ActiveIds)

\* C3: a rule removed by /mc_remove is never fired by the watcher
\* afterwards: no step starts a firing of a cancelled rule.
C3_CancelledNeverFires ==
    [][\A id \in cancelled : matched'[id] = matched[id]]_vars

\* C4: a rule whose token has a null cached value is not fired and not
\* removed by the watcher (it stays active unless /mc_remove takes it).
C4_NullNeverFires ==
    [][\A i \in 1..Len(reminders) :
          LET r == reminders[i]
          IN  token_cache'[r.ca].mc = Null
                => /\ matched'[r.id] = matched[r.id]
                   /\ \/ r.id \in cancelled'
                      \/ \E j \in 1..Len(reminders') : reminders'[j].id = r.id
      ]_vars

\* A "below" rule is active after a cycle that cached a null value for its
\* token.
C4_Witness ==
    /\ w_pc = "sleep"
    /\ \E i \in 1..Len(reminders) :
         /\ reminders[i].direction = "below"
         /\ token_cache[reminders[i].ca] = TokenSnapshot(Null, "none")

\* C6: the alert history never holds more than the capacity, is ordered
\* newest first, and changes only by an insertion at the front that drops
\* the oldest event when the list was full; kept events are unchanged.
HistoryOk ==
    /\ Len(alert_events) <= HistoryCap
    /\ \A i \in 1..(Len(alert_events) - 1) :
         alert_events[i].ts >= alert_events[i + 1].ts

HistoryStep ==
    alert_events' # alert_events =>
        /\ Len(alert_events') >= 1
        /\ Len(alert_events') =
             (IF Len(alert_events) = HistoryCap THEN HistoryCap
              ELSE Len(alert_events) + 1)
        /\ \A i \in 2..Len(alert_events') :
             alert_events'[i] = alert_events[i - 1]

C6_HistoryCappedNewestFirst == []HistoryOk /\ [][HistoryStep]_vars

IsStored(e) ==
    \E file \in StoredAlertFiles : \E i \in 1..Len(file) : file[i] = e

\* The history was loaded full, and a fired event has pushed a stored one
\* out: the newest is a fired event, the oldest still a stored one.
C6_Witness ==
    /\ Len(alert_events) = HistoryCap
    /\ ~IsStored(alert_events[1])
    /\ IsStored(alert_events[HistoryCap])

\* ========================================================================
\* Properties of meets (SpecMeets)
\* ========================================================================

\* C5: for a defined current value, "above" fires iff current >= target and
\* "below" fires iff current <= target; current = target fires in both.
C5_MeetsExact ==
    (m_result # "unset" /\ m_current # Null) =>
        ((m_result = "true") <=>
            (IF m_dir = "above" THEN m_current >= m_target
             ELSE m_current <= m_target))

\* A "below" call at the boundary returned true.
C5_Witness ==
    /\ m_result = "true"
    /\ m_dir = "below"
    /\ m_current = m_target

\* ========================================================================
\* Properties of the payment subsystem (SpecPay)
\* ========================================================================

\* The watcher takes its step on invoice i: it leaves "loop" or "scan" for
\* the notification of a change it made to i.
WatcherChanges(i) ==
    /\ p_pc \in {"loop", "scan"}
    /\ p_todo # <<>>
    /\ Head(p_todo) = i
    /\ p_pc' = "notify"

\* C7: an invoice's status only moves pending -> paid or pending ->
\* expired; a paid or expired invoice is never changed again; and a status
\* changes only in a step of the payment watcher on that invoice.
C7_StatusMachine ==
    [][/\ Len(invoices') >= Len(invoices)
       /\ \A i \in 1..Len(invoices) :
            LET a == invoices[i]
                b == invoices'[i]
            IN  /\ a.status # "pending" => b = a
                /\ b.status # a.status =>
                     /\ b.status \in {"paid", "expired"}
                     /\ WatcherChanges(i)
      ]_vars

\* A cycle started after the expiry of a paid invoice has gone through the
\* whole list and changed nothing.
C7_Witness ==
    /\ p_pc = "loop"
    /\ p_todo = <<>>
    /\ ~p_changed
    /\ \E i \in 1..Len(invoices) :
         /\ invoices[i].status = "paid"
         /\ p_now - invoices[i].created_ts > PAY_EXPIRY_SEC

\* The elapsed time of the running cycle (measured with the cycle's now)
\* exceeds the expiry duration.
Overdue(inv) == p_now - inv.created_ts > PAY_EXPIRY_SEC

\* The recipient wallet's balance, post minus pre, in a transaction, where
\* both balances are listed.
WalletCredited(tx, amount) ==
    \E j \in 1..Len(tx.keys) :
        /\ tx.keys[j] = DONATION_WALLET
        /\ j <= Len(tx.pre)
        /\ j <= Len(tx.post)
        /\ tx.post[j] - tx.pre[j] >= amount

\* A retrieved transaction that names the invoice's reference and credits
\* the wallet with at least the amount.
PaysNative(inv, ent) ==
    /\ ent.ok
    /\ \E j \in 1..Len(ent.tx.keys) : ent.tx.keys[j] = inv.reference
    /\ WalletCredited(ent.tx, inv.amount_base)

\* C8: in a cycle, a pending invoice whose elapsed time exceeds the expiry
\* duration is never paid and never queried on the ledger; the watcher's
\* step on it makes it expired; and when the cycle has gone through its
\* list no such invoice is left pending.
C8_CycleEnd ==
    (p_pc = "loop" /\ p_todo = <<>>) =>
        \A i \in 1..Len(invoices) :
            Overdue(invoices[i]) => invoices[i].status # "pending"

C8_Step ==
    \A i \in 1..Len(invoices) :
        (invoices[i].status = "pending" /\ Overdue(invoices[i])) =>
            /\ invoices'[i].status # "paid"
            /\ ~(p_pc' = "scan" /\ Head(p_todo') = i)
            /\ (p_pc = "loop" /\ p_todo # <<>> /\ Head(p_todo) = i
                   /\ <<p_pc, p_todo>>' # <<p_pc, p_todo>>)
                 => (invoices'[i].status = "expired" /\ p_pc' = "notify")

C8_ExpiryPrecedence == []C8_CycleEnd /\ [][C8_Step]_vars

\* An invoice has just been marked expired while the ledger holds a
\* transaction that pays it.
C8_Witness ==
    /\ p_pc = "notify"
    /\ invoices[Head(p_todo)].status = "expired"
    /\ \E k \in 1..Len(recent) : PaysNative(invoices[Head(p_todo)], recent[k])

\* C9: a paid invoice's recorded signature is that of a transaction whose
\* account list contains the invoice's reference.
C9_PaidNamesReference ==
    \A i \in 1..Len(invoices) :
        invoices[i].status = "paid" =>
            \E ent \in LedgerEntries :
                /\ ent.signature = invoices[i].tx_sig
                /\ \E j \in 1..Len(ent.tx.keys) :
                     ent.tx.keys[j] = invoices[i].reference

\* A scan of a list holding a transaction without the reference, crediting
\* the wallet with the amount, has left the invoice pending.
C9_Witness ==
    /\ p_pc = "loop"
    /\ p_reply = "list"
    /\ Len(invoices) = 1
    /\ invoices[1].status = "pending"
    /\ invoices[1].asset = "SOL"
    /\ \E k \in 1..Len(recent) :
         /\ recent[k].ok
         /\ \A j \in 1..Len(recent[k].tx.keys) :
              recent[k].tx.keys[j] # invoices[1].reference
         /\ WalletCredited(recent[k].tx, invoices[1].amount_base)

\* C10: when the query for a pending, unexpired native-asset invoice
\* returns the signature list, the invoice becomes paid with the signature
\* of the first paying transaction of the list if there is one, and stays
\* pending if there is none.
C10_Step ==
    (p_pc = "scan" /\ p_reply = "" /\ p_reply' = "list"
        /\ invoices[Head(p_todo)].asset = "SOL") =>
        LET i    == Head(p_todo)
            inv  == invoices[i]
            good == {k \in 1..Len(recent) : PaysNative(inv, recent[k])}
        IN  /\ inv.status = "pending"
            /\ ~Overdue(inv)
            /\ IF good # {}
               THEN /\ invoices'[i].status = "paid"
                    /\ \E k \in good :
                         /\ \A l \in good : k <= l
                         /\ invoices'[i].tx_sig = recent[k].signature
               ELSE invoices'[i] = inv

C10_NativeMatch == [][C10_Step]_vars

\* The list held two paying transactions and the invoice was paid with the
\* newer one's signature.
C10_Witness ==
    /\ p_pc = "notify"
    /\ p_reply = "list"
    /\ Len(recent) = 2
    /\ LET inv == invoices[Head(p_todo)]
       IN  /\ inv.asset = "SOL"
           /\ inv.status = "paid"
           /\ PaysNative(inv, recent[1])
           /\ PaysNative(inv, recent[2])
           /\ inv.tx_sig = recent[1].signature

\* ========================================================================
\* Properties of the refresh of the price cache (Spec)
\* ========================================================================

\* The watcher's step that takes the results of gather: refresh, snapshot
\* and start of the evaluation.
RefreshStep == w_pc = "fetch" /\ w_pc' # "fetch"

\* The entry a refresh writes for a fetch without a value.
NullEntry == [mc |-> Null, source |-> "none"]

\* The firing predicate of rule r on the values s, written out.
Met(r, s) ==
    /\ s[r.ca] # Null
    /\ IF r.direction = "above" THEN s[r.ca] >= r.target_mc
       ELSE s[r.ca] <= r.target_mc

\* The step starts the evaluation of the current rules on the values s:
\* the loop ends if no rule is met, else the first met rule is in hand and
\* the cycle's snapshot holds s for the rules' tokens.
EvaluationStarts(s) ==
    LET met == {i \in 1..Len(reminders) : Met(reminders[i], s)}
    IN  IF met = {} THEN w_pc' = "sleep"
        ELSE /\ w_pc' = "deliver"
             /\ \E i \in met :
                  /\ \A j \in met : i <= j
                  /\ Head(w_todo') = reminders[i]
             /\ \A i \in 1..Len(reminders) :
                  w_snap'[reminders[i].ca] = s[reminders[i].ca]

\* C13: the refresh step of a cycle leaves every token whose fetch failed
\* or returned no pairs with a null value and source 'none', whatever the
\* entry held before.
C13_FailedFetchNulls ==
    [][RefreshStep =>
          \A ca \in w_cas :
              w_results[ca] = Null => token_cache'[ca] = NullEntry]_vars

\* C14: when the refresh of a cycle is done, the evaluation starts on the
\* values that refresh wrote for the refreshed tokens (for the others, on
\* the cache as it is), and the snapshot stays the same for the rest of
\* the cycle's evaluation.
C14_Step ==
    /\ (RefreshStep /\ w_pc' # "failed") =>
          EvaluationStarts([ca \in Tokens |->
              IF ca \in w_cas THEN w_results[ca] ELSE token_cache[ca].mc])
    /\ (w_pc = "deliver" /\ w_pc' = "deliver") => w_snap' = w_snap

C14_SnapshotFresh == [][C14_Step]_vars

\* A 'below' rule, created when the cache held a value above its target,
\* is in hand with the value the refresh wrote.
C14_Witness ==
    /\ w_pc = "deliver"
    /\ Head(w_todo).direction = "below"
    /\ w_snap[Head(w_todo).ca] = 1
    /\ token_cache[Head(w_todo).ca] = [mc |-> 1, source |-> "fdv"]

\* C18: in a refresh step where the fetch of one token failed and the
\* fetch of another token B gave a value, B's entry is replaced with that
\* value and the rules on B are evaluated on it: the cycle is not
\* abandoned, no rule on B met by the value is passed over, and the
\* snapshot of the cycle holds the value.
C18_Step ==
    \A a, b \in w_cas :
        (RefreshStep /\ w_results[a] = Null /\ w_results[b] \in Values) =>
            LET v     == w_results[b]
                onB   == {i \in 1..Len(reminders) : reminders[i].ca = b}
                metB  == {i \in onB :
                            IF reminders[i].direction = "above"
                            THEN v >= reminders[i].target_mc
                            ELSE v <= reminders[i].target_mc}
            IN  /\ token_cache'[b].mc = v
                /\ w_pc' # "failed"
                /\ metB # {} =>
                     /\ w_pc' = "deliver"
                     /\ w_snap'[b] = v
                     /\ \E i \in 1..Len(reminders) :
                          /\ Head(w_todo') = reminders[i]
                          /\ \A j \in metB : i <= j

C19_MalformedIsolated ==
    [][RefreshStep =>
          /\ w_pc' # "failed"
          /\ \A ca \in w_cas :
                w_results[ca] # Malformed =>
                    token_cache'[ca] = RefreshSnapshot(w_results[ca])]_vars

\* ========================================================================
\* Properties of the watch loops' error handling
\* ========================================================================

\* Where the alert watcher can be while its loop runs.
WatcherAlive == w_pc \in {"sleep", "failed", "fetch", "deliver"}

\* C15: the alert watch loop never stops, and after a cycle that an error
\* ended (the watcher asleep after the outer except) another cycle starts:
\* the watcher is in its gather again, or asleep after a cycle without
\* rules.
C15_LoopSurvives ==
    /\ []WatcherAlive
    /\ (w_pc = "failed") ~> (w_pc \in {"fetch", "sleep"})

\* An error ended a cycle while rules are active.
C15_Witness == w_pc = "failed" /\ reminders # <<>>

\* C16: an error raised during a payment cycle is contained to that cycle:
\* the payment watcher is never stopped by it.
C16_PaymentLoopSurvives == p_pc # "dead"

\* C17: when the query for an invoice returns the signature list, the
\* entries that cannot be read are passed over and the scan goes on: if a
\* readable entry of the list pays the invoice, the invoice becomes paid
\* with the signature of the first such entry, whatever unreadable entries
\* stand before it.
C17_Step ==
    (p_pc = "scan" /\ p_reply = "" /\ p_reply' = "list") =>
        LET i    == Head(p_todo)
            inv  == invoices[i]
            good == {k \in 1..Len(recent) :
                        /\ recent[k].ok
                        /\ TxMatches(inv.reference, inv, recent[k].tx)}
        IN  good # {} =>
                /\ invoices'[i].status = "paid"
                /\ \E k \in good :
                     /\ \A l \in good : k <= l
                     /\ invoices'[i].tx_sig = recent[k].signature

C17_ScanSkipsUnreadable == [][C17_Step]_vars

\* The newest entry of the list could not be read and the invoice was paid
\* with the entry after it.
C17_Witness ==
    /\ p_pc = "notify"
    /\ p_reply = "list"
    /\ Len(recent) = 2
    /\ ~recent[1].ok
    /\ invoices[Head(p_todo)].status = "paid"
    /\ invoices[Head(p_todo)].tx_sig = recent[2].signature

\* ========================================================================
\* Properties of the token-invoice matching (SpecTok)
\* ========================================================================

\* Sum, over the token accounts of the mint with 6 decimals owned by the
\* wallet, of post balance minus pre balance; a decrease counts negatively.
RECURSIVE NetDelta(_, _)
NetDelta(tx, i) ==
    IF i > Len(tx.postTok) THEN 0
    ELSE (IF /\ tx.postTok[i].mint = USDC_MINT
             /\ tx.postTok[i].owner = DONATION_WALLET
             /\ tx.postTok[i].decimals = 6
          THEN tx.postTok[i].amount - tx.preTok[i].amount ELSE 0)
         + NetDelta(tx, i + 1)

\* C11: a transaction carrying the reference matches a token invoice
\* exactly when the net sum of the balance changes of the wallet's token
\* accounts (decreases counted negatively) reaches the requested amount.
C11_TokenNetDelta ==
    t_result # "unset" =>
        ((t_result = "true") <=> (NetDelta(t_tx, 1) >= t_amount))

\* ========================================================================
\* Properties of the consensus engine (SpecCons)
\* ========================================================================

\* C20: the consensus of a non-empty collection of positive values is the
\* same for every order of the pairs.
C20_ConsensusOrderFree == c_out # Null => c_out = c_out_perm

\* The values 100, 105, 110 and the outlier 1000000 in two different
\* orders: both calls return the restored middle value.
C20_Witness ==
    /\ c_out = 2 * Pow10(Log10(Float(105)))
    /\ Len(c_valid) = 4
    /\ c_valid # c_perm
    /\ {c_valid[i] : i \in 1..4} = {100, 105, 110, 1000000}

\* The floats of the sample handed to the consensus.
Sample == [i \in 1..Len(c_valid) |-> Float(c_valid[i])]

\* The k-th smallest member of a sequence.
Kth(vals, k) ==
    CHOOSE x \in {vals[i] : i \in 1..Len(vals)} :
        /\ Cardinality({i \in 1..Len(vals) : vals[i] < x}) < k
        /\ k <= Cardinality({i \in 1..Len(vals) : vals[i] <= x})

\* Twice the median of a sequence: the middle member, or the sum of the
\* two middle members.
TwiceMedian(vals) ==
    LET n == Len(vals)
    IN  IF n % 2 = 1 THEN 2 * Kth(vals, n \div 2 + 1)
        ELSE Kth(vals, n \div 2) + Kth(vals, n \div 2 + 1)

\* Four times the quartile q (1 or 3) of the logs of a sample, linearly
\* interpolated between the neighbours of position (n - 1) * q / 4.
FourQuartile(logs, q) ==
    LET n   == Len(logs)
        pos == (n - 1) * q
        f   == pos \div 4
        r   == pos % 4
    IN  IF r = 0 THEN 4 * Kth(logs, f + 1)
        ELSE (4 - r) * Kth(logs, f + 1) + r * Kth(logs, f + 2)

\* The members of a sample whose log10 lies within the fences
\* [Q1 - 1.5 * IQR, Q3 + 1.5 * IQR].
Survivors(sample) ==
    LET logs == [i \in 1..Len(sample) |-> Log10(sample[i])]
        q1   == FourQuartile(logs, 1)
        q3   == FourQuartile(logs, 3)
        lo   == 2 * q1 - 3 * (q3 - q1)
        hi   == 2 * q3 + 3 * (q3 - q1)
    IN  SelectSeq(sample, LAMBDA v : lo <= 8 * Log10(v) /\ 8 * Log10(v) <= hi)

\* C21: with at least 3 values the consensus is the median of the values
\* whose log10 lies within the fences, or of all the values if fewer than
\* 2 lie within.
C21_OutliersExcluded ==
    (c_out # Null /\ Len(c_valid) >= 3) =>
        c_out = TwiceMedian(IF Len(Survivors(Sample)) >= 2
                            THEN Survivors(Sample) ELSE Sample)

\* C22: with 1 or 2 values the consensus is the plain median of all of
\* them: the value itself, or the mean of the two.
C22_SmallSamplePlainMedian ==
    (c_out # Null /\ Len(c_valid) <= 2) => c_out = TwiceMedian(Sample)

\* The consensus of 100 and 105 is 102.5.
C22_Witness ==
    /\ c_valid = <<100, 105>>
    /\ c_out = Float(205)

\* ========================================================================
\* Properties of the cache lock (SpecLock)
\* ========================================================================

\* C12: a task that holds the cache lock is the task the event loop is
\* running, and the statement it is at is not a network call, a message
\* delivery, a store call or a sleep.
C12_LockNeverAcrossAwait ==
    \A t \in LockTasks :
        l_lock = t =>
            /\ l_run = t
            /\ ~Suspends(Code(t)[l_pc[t]].op)

\* /mc holds the lock in update_cache while the watcher is suspended in
\* gather and /mc_list in its deferral.
C12_Witness ==
    /\ l_lock = "mc"
    /\ l_pc["watcher"] = 1
    /\ l_pc["mc_list"] = 1

\* ------------------------------------------------------------------------
\* Claims about dex.py
\* ------------------------------------------------------------------------

\* The distance between twice a value and the consensus (in halves).
AbsDiff(a, b) == IF a >= b THEN a - b ELSE b - a

\* The candidates with a value among those returned.
Valued == {k \in 1..Len(d_out.cands) : d_out.cands[k].mc # NaN}

\* The candidate of the pair returned as best.
BestCand ==
    d_out.cands[CHOOSE k \in 1..Len(d_out.cands) : d_out.cands[k].p = d_out.best]

C24_FetchNeverRaises ==
    (d_ext \in ExtOutcomes \ {"ok"}) =>
        /\ d_pc \in {"call", "returned", "nodata", "rejected"}
        /\ d_pc # "call" => d_data = NoData
        /\ d_pc = "nodata" =>
              d_out = NoChoice /\ d_snap = TokenSnapshot(Null, "none")
        /\ d_pc = "rejected" => d_snap = NoSnapshot

\* The body of the reply could not be parsed; the caller has gone on.
C24_Witness == d_ext = "body" /\ d_pc = "nodata" /\ d_data = NoData

\* The pairs kept by the selection whose value resolves.
SelectedWithValue ==
    {i \in 1..Len(d_pairs) :
        /\ \E k \in 1..Len(SelectPairs(d_pairs, d_ca)) :
               SelectPairs(d_pairs, d_ca)[k] = i
        /\ resolve_mc_value(d_pairs[i], d_ca).mc # Null
        /\ resolve_mc_value(d_pairs[i], d_ca).mc > 0}

\* C25: when no selected pair yields a value the result is "no consensus":
\* no best pair, consensus 0 and an empty candidate list.
C25_NoValueNoCandidates ==
    (d_pc = "chosen" /\ SelectedWithValue = {}) => d_out = NoChoice

\* C26: the best pair is there iff a selected pair has a positive value,
\* and the value of the best pair resolves to a positive number.
C26_BestHasValue ==
    d_pc = "chosen" =>
        /\ d_out.best # 0 <=> SelectedWithValue # {}
        /\ d_out.best # 0 => d_out.best \in SelectedWithValue

\* The first candidate has no value; the second one is the best pair.
C26_Witness ==
    /\ d_pc = "chosen"
    /\ Len(d_out.cands) = 2
    /\ d_out.cands[1].mc = NaN
    /\ d_out.best = d_out.cands[2].p

\* A field that holds a positive number.
Positive(val) == val \notin {Null, Unparseable} /\ val > 0

\* The value and source the policy gives for a pair: the preferred field
\* if positive, else the other one if positive, else price x circulating
\* supply if both are positive, else nothing.
PolicyValue(pair) ==
    LET diluted == pair.chainId = "solana"
        one == IF diluted THEN pair.fdv ELSE pair.marketCap
        two == IF diluted THEN pair.marketCap ELSE pair.fdv
    IN  IF Positive(one)
        THEN [mc |-> one, src |-> IF diluted THEN "fdv" ELSE "marketCap"]
        ELSE IF Positive(two)
        THEN [mc |-> two, src |-> IF diluted THEN "marketCap" ELSE "fdv"]
        ELSE IF Positive(pair.priceUsd) /\ Positive(pair.supply)
        THEN [mc |-> pair.priceUsd * pair.supply, src |-> "computed"]
        ELSE [mc |-> Null, src |-> "none"]

\* C27: resolve_mc_value returns the value of the policy, which is no
\* value with source "none" or a positive number.
C27_ResolvePolicy ==
    d_pc = "resolved" =>
        /\ d_out = PolicyValue(d_pairs[1])
        /\ \/ d_out.mc = Null /\ d_out.src = "none"
           \/ d_out.mc # Null /\ d_out.mc > 0

\* A pair on Solana with both fields positive resolves to its fdv.
C27_Witness ==
    /\ d_pc = "resolved"
    /\ d_pairs[1].chainId = "solana"
    /\ d_pairs[1].fdv = 100 /\ d_pairs[1].marketCap = 105
    /\ d_out = [mc |-> 100, src |-> "fdv"]

\* The base-asset address of a pair matches the token asked for.
AddressMatches(pair, ca) ==
    IF is_solana_address(ca) THEN pair.address = ca
    ELSE Lower(pair.address) = Lower(ca)

\* C28: the pairs kept are exactly those whose address matches and whose
\* venue is not blacklisted, and the best pair is not on a blacklisted
\* venue.
C28_SelectionExact ==
    d_pc = "chosen" =>
        /\ {d_out.cands[k].p : k \in 1..Len(d_out.cands)} =
               {i \in 1..Len(d_pairs) :
                   /\ AddressMatches(d_pairs[i], d_ca)
                   /\ Lower(d_pairs[i].dexId) \notin DEX_BLACKLIST}
        /\ d_out.best # 0 => Lower(d_pairs[d_out.best].dexId) \notin DEX_BLACKLIST

\* The totals of a venue of the aggregate.
Totals(v) == d_out.agg[v]

\* C29: the recommendation is the venue of the aggregate with the highest
\* score, among equal scores the highest summed liquidity, among equal
\* scores and liquidity the highest summed volume; only venues of the
\* allow-list are in the aggregate; without a pool on such a venue the
\* aggregate is empty and nothing is recommended.
C29_VenueRecommendation ==
    d_pc = "summarized" =>
        /\ DOMAIN d_out.agg \subseteq LP_VENUES
        /\ DOMAIN d_out.agg =
               {_dex_alias(d_pairs[i]) : i \in
                   {j \in 1..Len(d_pairs) :
                       /\ \E k \in 1..Len(SelectPairs(d_pairs, d_ca)) :
                              SelectPairs(d_pairs, d_ca)[k] = j
                       /\ _dex_alias(d_pairs[j]) \in LP_VENUES}}
        /\ d_out.best = "" <=> DOMAIN d_out.agg = {}
        /\ d_out.best # "" =>
               /\ d_out.best \in DOMAIN d_out.agg
               /\ \A w \in DOMAIN d_out.agg :
                      /\ Totals(d_out.best).score >= Totals(w).score
                      /\ Totals(d_out.best).score = Totals(w).score =>
                             Totals(d_out.best).liq >= Totals(w).liq
                      /\ (/\ Totals(d_out.best).score = Totals(w).score
                          /\ Totals(d_out.best).liq = Totals(w).liq) =>
                             Totals(d_out.best).vol >= Totals(w).vol

\* Two venues of equal score; the venue of the second pool has the higher
\* liquidity and is recommended.
C29_Witness ==
    /\ d_pc = "summarized"
    /\ Len(d_pairs) = 2
    /\ Cardinality(DOMAIN d_out.agg) = 2
    /\ \A v, w \in DOMAIN d_out.agg : Totals(v).score = Totals(w).score
    /\ d_out.best = _dex_alias(d_pairs[2])
    /\ d_pairs[2].liq > d_pairs[1].liq

\* ------------------------------------------------------------------------
\* Claims about the persistence of the invoices
\* ------------------------------------------------------------------------

\* The payment cycle completes: the loop is through the copy and the task
\* goes to sleep.
C30_Step ==
    (p_pc = "loop" /\ p_todo = <<>> /\ p_pc' = "sleep") =>
        p_saves' = IF p_flips > 0 THEN 1 ELSE 0

\* C30: a payment cycle that completes has saved the invoices once if it
\* changed the status of an invoice, and not at all otherwise.
C30_PersistOncePerCycle == [][C30_Step]_vars

\* A cycle that marked an invoice paid has completed and saved once.
C30_Witness ==
    /\ p_pc = "sleep"
    /\ p_saves = 1
    /\ \E i \in 1..Len(invoices) : invoices[i].status = "paid"

\* ========================================================================
\* Properties of the payment watcher's notifications (SpecPay)
\* ========================================================================

\* C31: when the delivery of the expiry or confirmation message fails, the
\* invoice keeps its new status and signature, the cycle goes on through
\* the remaining invoices of its list, and it ends with the collection
\* handed to save_invoices: the step that ends the notification changes no
\* invoice and goes to the next one, a cycle in which a delivery failed
\* never stops with invoices of its list left, and its last step saves.
C31_Step ==
    /\ (p_pc = "notify" /\ p_pc' # "notify") =>
          /\ invoices' = invoices
          /\ p_pc' = "loop"
          /\ p_todo' = Tail(p_todo)
    /\ p_undelivered' => ~(p_pc' = "dead" /\ p_todo' # <<>>)
    /\ (p_undelivered /\ p_pc = "loop" /\ p_todo = <<>> /\ p_pc' # "loop")
          => p_saves' = 1

C31_DeliveryFailureCommitted == [][C31_Step]_vars

\* C33: an invoice has a non-empty transaction signature iff its status is
\* paid; a pending or expired invoice has an empty one.
C33_SignatureIffPaid ==
    \A i \in 1..Len(invoices) :
        (invoices[i].tx_sig # "") <=> (invoices[i].status = "paid")

\* A cycle has ended with one invoice paid and another expired.
C33_Witness ==
    /\ p_pc = "sleep"
    /\ \E i, j \in 1..Len(invoices) :
         /\ invoices[i].status = "paid"
         /\ invoices[i].tx_sig # ""
         /\ invoices[j].status = "expired"
         /\ invoices[j].tx_sig = ""

\* ========================================================================
\* Progress of the payment watcher (SpecPayFair)
\* ========================================================================

\* The invoice was created early enough for a cycle of the run to start
\* after its expiry duration has elapsed.
CanExpire(i) ==
    /\ i <= Len(invoices)
    /\ invoices[i].created_ts + PAY_EXPIRY_SEC < MaxClock

\* C36: with the watcher's steps always resumed and time passing, every
\* pending invoice eventually reaches a terminal state, paid or expired.
C36_InvoiceSettles ==
    \A i \in 1..MaxInvoices :
        (CanExpire(i) /\ invoices[i].status = "pending")
            ~> (i <= Len(invoices)
                   /\ invoices[i].status \in {"paid", "expired"})

\* ========================================================================
\* Properties of the cache entries written (SpecDex)
\* ========================================================================

\* C32: the value of a cache entry, written by the watch loop or by /mc,
\* is null or strictly positive, never zero or negative.
C32_CachedValuePositive ==
    d_pc \in {"chosen", "nodata", "updated"} =>
        (d_snap.mc = Null \/ d_snap.mc > 0)

\* /mc wrote a value computed from price and supply, taken from one pair
\* of a payload whose other pair, selected too, has a negative fdv and a
\* negative price.
C32_Witness ==
    /\ d_pc = "updated"
    /\ d_snap = TokenSnapshot(100, "computed")
    /\ Len(d_out.cands) = 2
    /\ \E i \in 1..2 : d_pairs[i].fdv = -100 /\ d_pairs[i].priceUsd = -10

\* ========================================================================
\* Properties of the alert history's content (Spec)
\* ========================================================================

\* The event's observed value meets the predicate of the event's own
\* direction and target.
EventMeets(e) ==
    /\ e.current_mc # Null
    /\ IF e.direction = "above" THEN e.current_mc >= e.target_mc
       ELSE e.current_mc <= e.target_mc

\* C34: every event of the history has a non-null observed value that
\* meets the firing predicate of the event's own target and direction, and
\* an event enters the history with the token, target, direction and guild
\* of the rule that fired and with the value that rule was evaluated on.
C34_Step ==
    alert_events' # alert_events =>
        /\ w_pc = "deliver"
        /\ LET rem == Head(w_todo)
               e   == alert_events'[1]
           IN  /\ e.ca = rem.ca
               /\ e.target_mc = rem.target_mc
               /\ e.direction = rem.direction
               /\ e.guild_id = rem.guild_id
               /\ e.current_mc = w_snap[rem.ca]
               /\ recorded'[rem.id] = recorded[rem.id] + 1

RuleTokens == {ca \in Tokens : \E i \in 1..Len(reminders) : reminders[i].ca = ca}

\* A step of /mc: a rule is created.
McStep == next_id' # next_id

\* C35: a cycle fetches and rewrites the entries of the tokens of the rules
\* active at its start and of no other token; a cycle without active rules
\* fetches nothing and writes nothing; and an entry once written is never
\* deleted.
C35_Step ==
    /\ (w_pc \in {"sleep", "failed"} /\ w_pc' = "fetch") =>
          w_cas' = RuleTokens /\ w_results' = NoResults
    /\ (w_pc \in {"sleep", "failed"} /\ RuleTokens = {} /\ ~McStep) =>
          /\ w_pc' \in {"sleep", "failed"}
          /\ w_results' = w_results
          /\ token_cache' = token_cache
    /\ w_pc = "fetch" =>
          \A ca \in Tokens \ w_cas :
              /\ w_results'[ca] = Pending
              /\ ~McStep => token_cache'[ca] = token_cache[ca]
    /\ (w_pc = "fetch" /\ w_pc' = "fetch") => w_cas' = w_cas
    /\ (token_cache' # token_cache /\ ~McStep) => RefreshStep
    /\ \A ca \in Tokens :
          token_cache[ca] # NoSnapshot => token_cache'[ca] # NoSnapshot

C35_CycleFrame == [][C35_Step]_vars

\* The fetches of a cycle have returned, for B alone, while A, the token of
\* the rule that fired last, has no rule left and keeps the value it fired
\* on.
C35_Witness ==
    /\ w_pc = "fetch"
    /\ w_cas = {"B"}
    /\ w_results["B"] # Pending
    /\ w_results["A"] = Pending
    /\ alert_events # <<>>
    /\ alert_events[1].ca = "A"
    /\ alert_events[1].target_mc \in Targets
    /\ token_cache["A"].mc = alert_events[1].current_mc

\* ========================================================================
\* The evaluation loop after a failure (Spec)
\* ========================================================================

\* The positions, in the rest of the cycle's copy of the rules, of the
\* rules after the one in hand whose predicate the snapshot meets.
MetLater == {k \in 2..Len(w_todo) : Met(w_todo[k], w_snap)}

\* C38: when the watcher is through with the rule in hand, however that
\* went (delivery failed, a save failed, the rule had been cancelled
\* meanwhile), the cycle goes on to the next rule of its copy that the
\* snapshot meets: every such rule is fired and removed in that cycle.
C38_Step ==
    (w_pc = "deliver" /\ <<w_pc, w_todo>>' # <<w_pc, w_todo>>) =>
        (MetLater # {} =>
            /\ w_pc' = "deliver"
            /\ \E k \in MetLater :
                 /\ \A l \in MetLater : k <= l
                 /\ Head(w_todo') = w_todo[k])

C38_LaterRulesProcessed == [][C38_Step]_vars

\* ========================================================================
\* Progress of the alert watcher (SpecFair)
\* ========================================================================

\* Rule id is active.
Active(id) == id \in ActiveIds

\* A fetch of the cycle has returned, for the token of the active rule id,
\* something other than a value that meets the rule's predicate.
FeedFails(id) ==
    \E i \in 1..Len(reminders) :
        /\ reminders[i].id = id
        /\ w_results[reminders[i].ca] # Pending
        /\ \/ w_results[reminders[i].ca] \notin Values
           \/ ~Met(reminders[i], w_results)

\* C37: an active rule eventually fires, unless it is cancelled or the
\* feed of its token returns something that does not meet its predicate:
\* if from some point on the feed keeps meeting the predicate and the rule
\* is not cancelled, the rule fires, whatever the other rules and the
\* feeds of the other tokens do.
C37_RuleEventuallyFires ==
    \A id \in RuleIds :
        Active(id) ~> (matched[id] >= 1 \/ id \in cancelled \/ FeedFails(id))

\* ========================================================================
\* The consensus of three values (SpecCons)
\* ========================================================================

\* C39: with exactly 3 values the fences discard none of them, however
\* extreme one is, and the consensus is the middle value of the three.
C39_ThreeValuesMiddle ==
    (c_out # Null /\ Len(c_valid) = 3) =>
        /\ Len(WithinFences(SortAsc([i \in 1..3 |-> Log10(Sample[i])]))) = 3
        /\ c_out = 2 * Kth(Sample, 2)
====
